---- MODULE Spec2Model ----
(***************************************************************************)
(* Model of pycrofluidics: the pressure-controller session (class Pelve,  *)
(* src/pycrofluidics/elveob.py) with its Remote-Mode / PID sub-state.     *)
(*                                                                         *)
(* One action per public method of Pelve.  Every action is the whole      *)
(* method: guards, driver calls, the status check of common.raiseEFerror  *)
(* and the assignments, in source order.  The variable `last` is a        *)
(* history record of the most recent call: its arguments, the exception   *)
(* it ended with ("ok" when it returned) and the driver calls it issued.  *)
(*                                                                         *)
(* Exceptions.  The Python code raises ValueError for three of the spec's *)
(* error classes; they are told apart by raise site (message):            *)
(*   "InvalidState"    ValueError("Remote loop ...") and                   *)
(*                     ValueError("PID can only be setup if remote ...")   *)
(*   "ConfigError"     ValueError("No PID setup in this channel"),         *)
(*                     ValueError("No callibration file found ...")        *)
(*   "ValidationError" ValueError("Channel choice between 1 and 4"),       *)
(*                     sensor type / resolution range, "Exactly 4          *)
(*                     Pressures", malformed calibration length            *)
(*   "DeviceError"     ConnectionError raised by common.raiseEFerror       *)
(* and the interpreter's own TypeError, AttributeError, IndexError and    *)
(* FileNotFoundError keep their names.                                     *)
(*                                                                         *)
(* Inputs.  Channels are plain Python ints (the documented parameter      *)
(* type), drawn from the boundary values of the range check; gains,       *)
(* pressures and targets are small integers, which c_double represents    *)
(* exactly.  The vendor driver is external: every driver call returns a   *)
(* status chosen from Statuses (HandleStatuses when the call carries the  *)
(* session's handle).  Calibration files and the config file              *)
(* are external as well: each call sees a file state chosen from          *)
(* FileStates.  `last` keeps the channel arguments of a call and, in      *)
(* `calls`, every argument that reached the driver.                       *)
(***************************************************************************)
EXTENDS Integers, Sequences, FiniteSets, TLC

\* ---------------------------------------------------------------- bounds
MaxGain == 2              \* proportional gains range over 1..MaxGain
MaxPressure == 1          \* pressures / targets range over 0..MaxPressure

\* ------------------------------------------------------ program constants
MinChannel == 1           \* _channelCheck: 1 <= channel
MaxChannel == 4           \* _channelCheck: channel <= 4
NumSlots == 4             \* len([False,False,False,False])
CalibLength == 1000       \* (c_double*1000)(), len(calibrationData) != 1000
MaxSensorType == 14       \* addSensor: 0 <= sensorType <= 14
MaxResolution == 7        \* addSensor: 0 <= resolution <= 7

\* channel arguments: just outside, and on, the bounds of _channelCheck
ChannelInputs ==
    {MinChannel - 1, MinChannel, MaxChannel - 1, MaxChannel, MaxChannel + 1}
SensorChannelInputs == {MinChannel - 1, MaxChannel, MaxChannel + 1}
\* gains: the integral gain differs from every proportional gain, so a
\* stored or submitted pair shows which argument went where
Gains == 1..MaxGain
IntegralGains == {MaxGain + 1}
\* the `run` argument of remoteAddPID as <<value, type(run) == bool>>
RunArgs == {<<TRUE, TRUE>>, <<FALSE, TRUE>>, <<TRUE, FALSE>>}
Pressures == 0..MaxPressure
\* contents of a calibration array: the zeroed array (c_double*1000)()
\* and one other content
ZeroTable == 0
Tables == {ZeroTable, 1}
Slots == 0..(NumSlots - 1)          \* Python list indices of confPIDs

\* keys of common.ERRORCODES
ERRORCODES == {8000, 8001, 8002, 8003, 8004, 8005, 8006, 8007, 2}
\* statuses the driver may return: success, and a failure code (the
\* negative of 8006, "No Instrument with selected ID")
Statuses == {0, -8006}

Abs(x) == IF x < 0 THEN -x ELSE x

\* common.raiseEFerror: 0 returns None, anything else raises ConnectionError
raiseEFerror(error) ==
    IF error = 0 THEN "ok"
    ELSE IF Abs(error) \in ERRORCODES THEN "DeviceError"
    ELSE "DeviceError"

\* variant of _channelCheck: the lower bound left out
_channelCheck_UpperOnly(channel) == channel <= MaxChannel

\* Pelve._channelCheck for a plain int argument
_channelCheck(channel) == MinChannel <= channel /\ channel <= MaxChannel

\* a Python list of length NumSlots accepts index i (i >= 0 here)
IndexOK(i) == i \in Slots

\* c_int32(int(b)) and bool(c.value)
BoolToInt(b) == IF b THEN 1 ELSE 0
IntToBool(n) == n # 0

\* an entry of confPIDs: Python False, or the dict {'P': P, 'I': I}
NoPID == [isDict |-> FALSE, P |-> 0, I |-> 0]
PIDdict(P, I) == [isDict |-> TRUE, P |-> P, I |-> I]

NoCalib == -1             \* the attribute self.calib does not exist yet

VARIABLES
    insideRemote,   \* self.insideRemote
    confPIDs,       \* self.confPIDs     : Slots -> NoPID or PIDdict
    runningPIDs,    \* self.runningPIDs  : Slots -> BOOLEAN
    calib,          \* self.calib        : NoCalib or a table of Tables
    Instr_ID,       \* self.Instr_ID, as the driver sees the handle:
                    \*   "unset"     the attribute does not exist (before open)
                    \*   "valid"     initialised and not destroyed
                    \*   "invalid"   left by an OB1_Initialization that failed
                    \*   "destroyed" released by close
    last            \* history: the most recent call

\* ------------------------------------------- valve session (class MUXelve)
MaxValve == 12            \* set_valve: 0 < valve_index < 13
HomeTimeout == 10         \* home: wait_for_valve_movement( timeout=10 )
DefaultTimeout == 5       \* wait_for_valve_movement(self, timeout = 5)
Busy == 0                 \* get_valve: 0 is returned while the valve is busy
NoReturn == -1            \* no value returned (None, or the call is running)

MaxPollTime == 3          \* a poll (get_valve and clock read) takes 0..MaxPollTime s

\* valve indices: just outside, and on, the bounds of set_valve's check
ValveInputs == {0, 1, 2, MaxValve, MaxValve + 1}
\* positions the distributor rests at
ValveRest == {i \in ValveInputs : 0 < i /\ i < MaxValve + 1}
PollTimes == 0..MaxPollTime
WaitTimeouts == {0, DefaultTimeout}

VARIABLES
    muxInstr,       \* MUXelve.Instr_ID, as the driver sees the handle
                    \*   ("unset", "valid", "invalid", "destroyed")
    valve,          \* the distributor: rep, the position MUX_DRI_Get_Valve
                    \*   reports (Busy while turning); dest, where the motion
                    \*   ends; pending, a command is accepted and the motion
                    \*   has not started yet
    mpc,            \* position of the valve session's running call
    mframe,         \* locals of the running call and of its callers
    mhist           \* history of the running / most recent top-level call

\* --------------------------- acquisition routines (protocols.acquireData*)
TicksPerSecond == 20      \* resolution of the clock time.time() is read on
NaN == -1                 \* np.nan; every reading is >= 0
MaxFaults == 1            \* read failures the driver reports during one run
BufferLines == 3          \* lines the buffer of a file object takes
MaxLate == 1              \* time, in clock ticks, the reads of one run take

VARIABLES
    apc,            \* position of the acquisition routine: "idle", "loop", "done"
    acq,            \* its locals: breakTime, measurementEnd, the clock
    data,           \* its list `data`: the readings of each row
    files,          \* the file system: path -> [exists, lines, pending];
                    \*   `lines` are in the file, `pending` are written
                    \*   lines still in the buffer of the open file object
    ahist           \* history of the run

\* ------------------------------- injection routine (protocols.injectVolume)
VolumeUnits == 60 * TicksPerSecond   \* volumes are counted in 1/VolumeUnits ul:
                                     \*   flow [ul/min] * loop_time [clock ticks]
MaxTickTime == 2          \* a turn of the loop takes 0..MaxTickTime clock ticks
MaxDoses == 2             \* target volumes are 1..MaxDoses doses

VARIABLES
    ipc,            \* position of injectVolume: "idle", "set_valve_55", "loop",
                    \*   "set_valve_69", "done"
    inj,            \* its arguments and locals
    ihist           \* history of the run: the calls it made, in order

\* ------------------------------------ sweep routine (protocols.pressureSweep)
MaxSetpoints == 2         \* len(pressures) ranges over 0..MaxSetpoints

VARIABLES
    spc,            \* position of pressureSweep: "idle", "set", "acquire", "done"
    swp,            \* its arguments and locals: pressures, i, result
    shist           \* history of the run: the calls it made, in order

\* ------------------- calibration files (performCallibration, saveCalibration)
MaxDay == 2               \* calendar dates are 1..MaxDay

VARIABLES
    calfs,          \* the files of one calibration path: `current`, the file
                    \*   at the path, and `backup`, the files at
                    \*   <path>.<date>, by date
    today,          \* the calendar date
    chist           \* history: the tables saved so far and how the most
                    \*   recent performCallibration ended

\* ------------------------- scoped use of a session (__enter__ / __exit__)
VARIABLES
    scope           \* the with statement: whose session it manages, where
                    \*   it is, and whether the block raised

\* --------------------------------- status check (common.raiseEFerror)
VARIABLES
    chk             \* a call of raiseEFerror: its arguments and outcome

pelveVars == <<insideRemote, confPIDs, runningPIDs, calib, Instr_ID, last>>
muxVars == <<muxInstr, valve, mpc, mframe, mhist>>
acqVars == <<apc, acq, data, files, ahist>>
injVars == <<ipc, inj, ihist>>
sweepVars == <<spc, swp, shist>>
calVars == <<calfs, today, chist>>
auxVars == <<calVars, scope, chk>>
protoVars == <<injVars, sweepVars, auxVars>>
\* what a step of injectVolume leaves alone besides the two sessions
notInjVars == <<acqVars, sweepVars, auxVars>>
vars == <<pelveVars, muxVars, acqVars, protoVars>>

\* a step of the pressure session / of the valve session / of an
\* acquisition routine alone
PelveOnly == UNCHANGED <<muxVars, acqVars, protoVars>>
ValveOnly == UNCHANGED <<pelveVars, acqVars, protoVars>>
AcqOnly == UNCHANGED <<pelveVars, muxVars, protoVars>>

NoFile == [exists |-> FALSE, lines |-> <<>>, pending |-> <<>>]
\* lines of the save file / rows of `data`
Header == [kind |-> "header", p |-> <<>>, s |-> <<>>]
OtherLine == [kind |-> "other", p |-> <<>>, s |-> <<>>]
Row(p, s) == [kind |-> "row", p |-> p, s |-> s]
OldFile == [exists |-> TRUE, lines |-> <<OtherLine>>, pending |-> <<>>]
\* the paths a caller passes as savePath: one free, one naming a file
Paths == {"free", "occupied"}
InitFiles == [path \in Paths |-> IF path = "occupied" THEN OldFile ELSE NoFile]
IdleAcq ==
    [fn |-> "none", savePath |-> "none", breakTime |-> 0, measurementEnd |-> 0,
     now |-> 0]
NoRun ==
    [res |-> "none", ticks |-> 0, faults |-> {}, reads |-> 0, late |-> 0,
     rowStart |-> 0, rowTime |-> 0, prevRowTime |-> 0, breakStart |-> 0,
     preFile |-> NoFile]

\* no acquisition has been started
AcqInit ==
    /\ apc = "idle"
    /\ acq = IdleAcq
    /\ data = <<>>
    /\ files = InitFiles
    /\ ahist = NoRun

IdleInj ==
    [pressure_channel |-> 0, flowrate_sensor_channel |-> 0,
     inject_valve_channel |-> 0, volume |-> 0, stop_valve_channel |-> 0,
     pressure |-> 0, flow_rate |-> 0, max_flow |-> 0, loop_time |-> 0,
     volume_injected |-> 0]
NoInjection ==
    [res |-> "none", log |-> <<>>, turns |-> 0, warnings |-> <<>>,
     exitVolume |-> -1, overrun |-> FALSE, positive |-> TRUE]

\* no injection has been started
InjInit == ipc = "idle" /\ inj = IdleInj /\ ihist = NoInjection

IdleSweep ==
    [channel |-> 0, pressures |-> <<>>, acquisitionRate |-> 0, staticTime |-> 0,
     endAtZero |-> FALSE, i |-> 0, result |-> <<>>]
NoSweep == [res |-> "none", log |-> <<>>]

\* no sweep has been started
SweepInit == spc = "idle" /\ swp = IdleSweep /\ shist = NoSweep

\* a calibration file: absent, or a table written on the date `mtime`
NoCal == [exists |-> FALSE, table |-> 0, mtime |-> 0]
CalFile(table, date) == [exists |-> TRUE, table |-> table, mtime |-> date]
Days == 1..MaxDay
NoBackups == [d \in Days |-> NoCal]
NoScope == [who |-> "none", pc |-> "out", raised |-> FALSE]
NoCheck == [error |-> 0, action |-> "none", res |-> "none", message |-> <<>>]

\* no calibration file exists, no with statement and no status check has
\* been started
AuxInit ==
    /\ calfs = [current |-> NoCal, backup |-> NoBackups]
    /\ today = 1
    /\ chist = [saved |-> {}, res |-> "none"]
    /\ scope = NoScope
    /\ chk = NoCheck

\* an entry of the log of a call: a driver command with its argument and
\* status, a completed wait_for_valve_movement ("wait") with its timeout,
\* or a set_valve that returned at line 105 ("return_105") with its index
Ev(ev, arg, status) == [ev |-> ev, arg |-> arg, status |-> status]

IdleFrame ==
    [index |-> 0, blocking |-> FALSE, stage |-> 0, start |-> 0,
     waiter |-> "none", timeout |-> 0, elapsed |-> 0]

\* the history of a top-level call that starts now
NewHist(op, arg, blocking) ==
    [op |-> op, arg |-> arg, blocking |-> blocking,
     open |-> (muxInstr = "valid"),   \* called on an open session
     again |-> (/\ mhist.op = op /\ mhist.arg = arg
                /\ mhist.res = "ok" /\ mhist.moved),
                                      \* repeats the call before it, which
                                      \*   returned after moving the valve
     res |-> "running", ret |-> NoReturn,
     log |-> <<>>,                    \* commands and completed waits
     queried |-> FALSE,               \* a position query was made
     index |-> 0,                     \* target of the latest set_valve
     first |-> NoReturn,              \* its query of line 104
     moved |-> FALSE,                 \* its move command was accepted
     after |-> <<>>,                  \* its queries of line 115
     seen |-> FALSE,                  \* latest wait: a poll returned a
                                      \*   position within the timeout
     wtimeout |-> 0, welapsed |-> 0]  \* latest wait: timeout, time at last poll

\* MUXelve.__init__, and the distributor at rest at its first position
MUXInit ==
    /\ muxInstr = "unset"
    /\ valve = [rep |-> 1, dest |-> 1, pending |-> FALSE]
    /\ mpc = "idle"
    /\ mframe = IdleFrame
    /\ mhist = [op |-> "__init__", arg |-> 0, blocking |-> FALSE, open |-> FALSE,
                again |-> FALSE, res |-> "ok", ret |-> NoReturn, log |-> <<>>,
                queried |-> FALSE, index |-> 0, first |-> NoReturn,
                moved |-> FALSE, after |-> <<>>, seen |-> FALSE,
                wtimeout |-> 0, welapsed |-> 0]


\* a driver call: function name, channel, second channel, two numeric
\* arguments, a flag argument (0/1) and the status the driver returned
Call(fn, ch, ch2, a, b, flag, status) ==
    [fn |-> fn, ch |-> ch, ch2 |-> ch2, a |-> a, b |-> b, flag |-> flag,
     status |-> status]

\* the session state, as a value
Pre ==
    [insideRemote |-> insideRemote, confPIDs |-> confPIDs,
     runningPIDs |-> runningPIDs, calib |-> calib, Instr_ID |-> Instr_ID]

\* the history record of one call: the method, its channel arguments, how
\* it ended, the driver calls it made and the session state it started in
Rec(op, ch, ch2, res, calls) ==
    [op |-> op, ch |-> ch, ch2 |-> ch2, res |-> res, calls |-> calls,
     pre |-> Pre]

\* Pelve.__init__ and MUXelve.__init__ (the objects exist, nothing opened yet)
Init ==
    /\ insideRemote = FALSE
    /\ confPIDs = [i \in Slots |-> NoPID]
    /\ runningPIDs = [i \in Slots |-> FALSE]
    /\ calib = NoCalib
    /\ Instr_ID = "unset"
    /\ last = Rec("__init__", 0, 0, "ok", <<>>)
    /\ MUXInit
    /\ AcqInit
    /\ InjInit
    /\ SweepInit
    /\ AuxInit

\* ------------------------------------------------------------ open/close
\* Pelve.open
open(status) ==
    /\ Instr_ID' = IF status = 0 THEN "valid" ELSE "invalid"
    /\ last' = Rec("open", 0, 0, raiseEFerror(status),
                   <<Call("OB1_Initialization", 0, 0, 0, 0, 0, status)>>)
    /\ UNCHANGED <<insideRemote, confPIDs, runningPIDs, calib>>

\* variant of ClearedPIDs: the configurations are not reset
ClearedPIDs_Kept == confPIDs

\* lines 285-286 of stopRemote: both lists are reset
ClearedPIDs == [i \in Slots |-> NoPID]
\* variant of ClearedRunning: the flags are not reset
ClearedRunning_Kept == runningPIDs
ClearedRunning == [i \in Slots |-> FALSE]

\* Pelve.stopRemote
stopRemote(status) ==
    IF ~insideRemote
    THEN /\ last' = Rec("stopRemote", 0, 0, "InvalidState", <<>>)
         /\ UNCHANGED <<insideRemote, confPIDs, runningPIDs, calib, Instr_ID>>
    ELSE /\ last' = Rec("stopRemote", 0, 0, raiseEFerror(status),
                        <<Call("OB1_Stop_Remote_Measurement", 0, 0, 0, 0, 0, status)>>)
         /\ IF status = 0
            THEN /\ confPIDs' = ClearedPIDs
                 /\ runningPIDs' = ClearedRunning
                 /\ insideRemote' = FALSE
            ELSE UNCHANGED <<insideRemote, confPIDs, runningPIDs>>
         /\ UNCHANGED <<calib, Instr_ID>>

\* the handle after OB1_Destructor returned `status`; a destroy that
\* reports failure leaves the handle in a state only the driver knows
AfterDestructor(status, stillValid) ==
    IF status = 0 THEN "destroyed"
    ELSE IF stillValid THEN Instr_ID ELSE "destroyed"

\* close, lines 75-80: the graceful stopRemote; ConnectionError is swallowed
CloseStopCalls(stopStatus) ==
    IF insideRemote
    THEN <<Call("OB1_Stop_Remote_Measurement", 0, 0, 0, 0, 0, stopStatus)>>
    ELSE <<>>

\* variant of close: no try/except around the graceful stopRemote
close_NoTry(stopStatus, status, stillValid) ==
    IF Instr_ID = "unset"
    THEN /\ last' = Rec("close", 0, 0, "AttributeError", <<>>)
         /\ UNCHANGED <<insideRemote, confPIDs, runningPIDs, calib, Instr_ID>>
    ELSE IF insideRemote /\ stopStatus # 0
    THEN /\ last' = Rec("close", 0, 0, raiseEFerror(stopStatus), CloseStopCalls(stopStatus))
         /\ UNCHANGED <<insideRemote, confPIDs, runningPIDs, calib, Instr_ID>>
    ELSE /\ IF insideRemote
            THEN /\ confPIDs' = ClearedPIDs
                 /\ runningPIDs' = ClearedRunning
                 /\ insideRemote' = FALSE
            ELSE UNCHANGED <<insideRemote, confPIDs, runningPIDs>>
         /\ Instr_ID' = AfterDestructor(status, stillValid)
         /\ last' = Rec("close", 0, 0, raiseEFerror(status),
                        CloseStopCalls(stopStatus)
                          \o <<Call("OB1_Destructor", 0, 0, 0, 0, 0, status)>>)
         /\ UNCHANGED calib

\* Pelve.close
close(stopStatus, status, stillValid) ==
    IF Instr_ID = "unset"
    THEN \* insideRemote is false here; self.Instr_ID raises AttributeError
         /\ last' = Rec("close", 0, 0, "AttributeError", <<>>)
         /\ UNCHANGED <<insideRemote, confPIDs, runningPIDs, calib, Instr_ID>>
    ELSE /\ IF insideRemote /\ stopStatus = 0
            THEN /\ confPIDs' = ClearedPIDs
                 /\ runningPIDs' = ClearedRunning
                 /\ insideRemote' = FALSE
            ELSE UNCHANGED <<insideRemote, confPIDs, runningPIDs>>
         /\ Instr_ID' = AfterDestructor(status, stillValid)
         /\ last' = Rec("close", 0, 0, raiseEFerror(status),
                        CloseStopCalls(stopStatus)
                          \o <<Call("OB1_Destructor", 0, 0, 0, 0, 0, status)>>)
         /\ UNCHANGED calib

\* ------------------------------------------------------------ calibration
\* what a calibration file path holds when the call looks at it
FileStates ==
    {[exists |-> FALSE, len |-> 0, table |-> 0]}
      \cup {[exists |-> TRUE, len |-> n, table |-> t] :
               n \in {CalibLength - 1, CalibLength}, t \in Tables}

PathKinds == {"None", "notstr", "str"}

\* module function loadCalibration(location), location a str
loadCalibrationResult(file) ==
    IF ~file.exists THEN "FileNotFoundError"
    ELSE IF file.len # CalibLength THEN "ValidationError"
    ELSE "ok"

\* lines 105-110 of Pelve.loadCallibration: the checks on `path`
loadPathCheck(pathKind, file) ==
    IF pathKind = "None" THEN "ok"
    ELSE IF pathKind # "str" THEN "TypeError"
    ELSE IF ~file.exists THEN "ConfigError"
    ELSE "ok"

\* Pelve.loadCallibration
loadCallibration(pathKind, file) ==
    LET pre == loadPathCheck(pathKind, file)
        res == IF pre # "ok" THEN pre ELSE loadCalibrationResult(file)
    IN  /\ calib' = IF res = "ok" THEN file.table ELSE calib
        /\ last' = Rec("loadCallibration", 0, 0, res, <<>>)
                      @@ [path |-> pathKind, file |-> file]
        /\ UNCHANGED <<insideRemote, confPIDs, runningPIDs, Instr_ID>>

\* Pelve.performCallibration, lines 122-132: the session's part; newTable
\* is what the driver left in the array.  The backup and the save of the
\* file (lines 134-141) are followed in performCallibration_133.
performCallibration(pathKind, newTable, status) ==
    IF insideRemote
    THEN /\ last' = Rec("performCallibration", 0, 0, "InvalidState", <<>>)
         /\ UNCHANGED <<insideRemote, confPIDs, runningPIDs, calib, Instr_ID>>
    ELSE IF pathKind = "notstr"
    THEN /\ last' = Rec("performCallibration", 0, 0, "TypeError", <<>>)
         /\ UNCHANGED <<insideRemote, confPIDs, runningPIDs, calib, Instr_ID>>
    ELSE IF Instr_ID = "unset"
    THEN \* line 130 already replaced the table by a zeroed array
         /\ calib' = ZeroTable
         /\ last' = Rec("performCallibration", 0, 0, "AttributeError", <<>>)
         /\ UNCHANGED <<insideRemote, confPIDs, runningPIDs, Instr_ID>>
    ELSE /\ calib' = newTable
         /\ last' = Rec("performCallibration", 0, 0, raiseEFerror(status),
                        <<Call("OB1_Calib", 0, 0, 0, 0, 0, status)>>)
         /\ UNCHANGED <<insideRemote, confPIDs, runningPIDs, Instr_ID>>

\* ------------------------------------------------------- direct accessors
\* the attribute reads self.Instr_ID.value and self.calib of a driver call
HasHandleAttr == Instr_ID # "unset"
HasCalibAttr == calib # NoCalib

\* variant of setPressureResult: the Remote-Mode check left out
setPressureResult_Unguarded(channel, pressure, status) ==
    IF ~_channelCheck(channel)
    THEN Rec("setPressure", channel, 0, "ValidationError", <<>>)
    ELSE IF ~(HasHandleAttr /\ HasCalibAttr)
    THEN Rec("setPressure", channel, 0, "AttributeError", <<>>)
    ELSE Rec("setPressure", channel, 0, raiseEFerror(status),
             <<Call("OB1_Set_Press", channel, 0, pressure, 0, 0, status)>>)

\* Pelve.setPressure
setPressureResult(channel, pressure, status) ==
    IF insideRemote
    THEN Rec("setPressure", channel, 0, "InvalidState", <<>>)
    ELSE IF ~_channelCheck(channel)
    THEN Rec("setPressure", channel, 0, "ValidationError", <<>>)
    ELSE IF ~(HasHandleAttr /\ HasCalibAttr)
    THEN Rec("setPressure", channel, 0, "AttributeError", <<>>)
    ELSE Rec("setPressure", channel, 0, raiseEFerror(status),
             <<Call("OB1_Set_Press", channel, 0, pressure, 0, 0, status)>>)

setPressure(channel, pressure, status) ==
    /\ last' = setPressureResult(channel, pressure, status)
    /\ UNCHANGED <<insideRemote, confPIDs, runningPIDs, calib, Instr_ID>>

\* Pelve.getPressure, also the direct branch of getPressureUniversal
getPressureResult(op, channel, status) ==
    IF insideRemote
    THEN Rec(op, channel, 0, "InvalidState", <<>>)
    ELSE IF ~_channelCheck(channel)
    THEN Rec(op, channel, 0, "ValidationError", <<>>)
    ELSE IF ~(HasHandleAttr /\ HasCalibAttr)
    THEN Rec(op, channel, 0, "AttributeError", <<>>)
    ELSE Rec(op, channel, 0, raiseEFerror(status),
             <<Call("OB1_Get_Press", channel, 0, 0, 0, 1, status)>>)

getPressure(channel, status) ==
    /\ last' = getPressureResult("getPressure", channel, status)
    /\ UNCHANGED <<insideRemote, confPIDs, runningPIDs, calib, Instr_ID>>

BulkLength == 4           \* setPressureBulk: len(pressures) != 4

\* Pelve.setPressureBulk; the argument is list-like of length n, or not
\* iterable at all
setPressureBulk(iterable, n, status) ==
    /\ last' =
         IF insideRemote
         THEN Rec("setPressureBulk", 0, 0, "InvalidState", <<>>)
         ELSE IF ~iterable
         THEN Rec("setPressureBulk", 0, 0, "TypeError", <<>>)
         ELSE IF n # BulkLength
         THEN Rec("setPressureBulk", 0, 0, "ValidationError", <<>>)
         ELSE IF ~(HasHandleAttr /\ HasCalibAttr)
         THEN Rec("setPressureBulk", 0, 0, "AttributeError", <<>>)
         ELSE Rec("setPressureBulk", 0, 0, raiseEFerror(status),
                  <<Call("OB1_Set_All_Press", 0, 0, n, 0, 0, status)>>)
    /\ UNCHANGED <<insideRemote, confPIDs, runningPIDs, calib, Instr_ID>>

\* (sensorType, resolution) arguments: both in range, or one of them just
\* outside its range
SensorArgs ==
    {<<MaxSensorType, MaxResolution>>, <<0, 0>>,
     <<-1, MaxResolution>>, <<MaxSensorType + 1, MaxResolution>>,
     <<MaxSensorType, -1>>, <<MaxSensorType, MaxResolution + 1>>}

\* Pelve.addSensor (sensorDig, sensorIPACalib, sensorCustVolt at defaults)
addSensor(channel, sensorType, resolution, status) ==
    /\ last' =
         IF insideRemote
         THEN Rec("addSensor", channel, 0, "InvalidState", <<>>)
         ELSE IF ~_channelCheck(channel)
         THEN Rec("addSensor", channel, 0, "ValidationError", <<>>)
         ELSE IF ~(0 <= sensorType /\ sensorType <= MaxSensorType)
         THEN Rec("addSensor", channel, 0, "ValidationError", <<>>)
         ELSE IF ~(0 <= resolution /\ resolution <= MaxResolution)
         THEN Rec("addSensor", channel, 0, "ValidationError", <<>>)
         ELSE IF ~HasHandleAttr
         THEN Rec("addSensor", channel, 0, "AttributeError", <<>>)
         ELSE Rec("addSensor", channel, 0, raiseEFerror(status),
                  <<Call("OB1_Add_Sens", channel, 0, sensorType, resolution, 1, status)>>)
    /\ UNCHANGED <<insideRemote, confPIDs, runningPIDs, calib, Instr_ID>>

\* Pelve.getSensorData, also the direct branch of getFlowUniversal
getSensorDataResult(op, channel, status) ==
    IF insideRemote
    THEN Rec(op, channel, 0, "InvalidState", <<>>)
    ELSE IF ~_channelCheck(channel)
    THEN Rec(op, channel, 0, "ValidationError", <<>>)
    ELSE IF ~HasHandleAttr
    THEN Rec(op, channel, 0, "AttributeError", <<>>)
    ELSE Rec(op, channel, 0, raiseEFerror(status),
             <<Call("OB1_Get_Sens_Data", channel, 0, 0, 0, 1, status)>>)

getSensorData(channel, status) ==
    /\ last' = getSensorDataResult("getSensorData", channel, status)
    /\ UNCHANGED <<insideRemote, confPIDs, runningPIDs, calib, Instr_ID>>

\* ------------------------------------------------------------ remote mode
\* variant of RemoteAfterStart: the flag set before the status check
RemoteAfterStart_Early(status) == TRUE

\* lines 274-275: the flag is set only past the status check
RemoteAfterStart(status) == raiseEFerror(status) = "ok"

\* Pelve.startRemote
startRemote(status) ==
    IF insideRemote
    THEN /\ last' = Rec("startRemote", 0, 0, "InvalidState", <<>>)
         /\ UNCHANGED <<insideRemote, confPIDs, runningPIDs, calib, Instr_ID>>
    ELSE IF ~(HasHandleAttr /\ HasCalibAttr)
    THEN /\ last' = Rec("startRemote", 0, 0, "AttributeError", <<>>)
         /\ UNCHANGED <<insideRemote, confPIDs, runningPIDs, calib, Instr_ID>>
    ELSE /\ last' = Rec("startRemote", 0, 0, raiseEFerror(status),
                        <<Call("OB1_Start_Remote_Measurement", 0, 0, 0, 0, 0, status)>>)
         /\ insideRemote' = RemoteAfterStart(status)
         /\ UNCHANGED <<confPIDs, runningPIDs, calib, Instr_ID>>

\* Pelve.remoteGetData, also the remote branch of the universal accessors
remoteGetDataResult(op, channel, status) ==
    IF ~insideRemote
    THEN Rec(op, channel, 0, "InvalidState", <<>>)
    ELSE IF ~_channelCheck(channel)
    THEN Rec(op, channel, 0, "ValidationError", <<>>)
    ELSE IF ~HasHandleAttr
    THEN Rec(op, channel, 0, "AttributeError", <<>>)
    ELSE Rec(op, channel, 0, raiseEFerror(status),
             <<Call("OB1_Get_Remote_Data", channel, 0, 0, 0, 0, status)>>)

remoteGetData(channel, status) ==
    /\ last' = remoteGetDataResult("remoteGetData", channel, status)
    /\ UNCHANGED <<insideRemote, confPIDs, runningPIDs, calib, Instr_ID>>

\* Pelve.remoteSetTarget
remoteSetTargetResult(channel, target, status) ==
    IF ~insideRemote
    THEN Rec("remoteSetTarget", channel, 0, "InvalidState", <<>>)
    ELSE IF ~_channelCheck(channel)
    THEN Rec("remoteSetTarget", channel, 0, "ValidationError", <<>>)
    ELSE IF ~HasHandleAttr
    THEN Rec("remoteSetTarget", channel, 0, "AttributeError", <<>>)
    ELSE Rec("remoteSetTarget", channel, 0, raiseEFerror(status),
             <<Call("OB1_Set_Remote_Target", channel, 0, target, 0, 0, status)>>)

remoteSetTarget(channel, target, status) ==
    /\ last' = remoteSetTargetResult(channel, target, status)
    /\ UNCHANGED <<insideRemote, confPIDs, runningPIDs, calib, Instr_ID>>

\* Pelve.getPressureUniversal / Pelve.getFlowUniversal
getPressureUniversal(channel, status) ==
    /\ last' = IF insideRemote
               THEN remoteGetDataResult("getPressureUniversal", channel, status)
               ELSE getPressureResult("getPressureUniversal", channel, status)
    /\ UNCHANGED <<insideRemote, confPIDs, runningPIDs, calib, Instr_ID>>

getFlowUniversalResult(channel, status) ==
    IF insideRemote
    THEN remoteGetDataResult("getFlowUniversal", channel, status)
    ELSE getSensorDataResult("getFlowUniversal", channel, status)

getFlowUniversal(channel, status) ==
    /\ last' = getFlowUniversalResult(channel, status)
    /\ UNCHANGED <<insideRemote, confPIDs, runningPIDs, calib, Instr_ID>>

\* -------------------------------------------------------------------- PID
\* the list index the PID methods use for a checked channel:
\* int(channel.value), the channel number itself
SlotIndex(channel) == channel

\* Pelve.remoteAddPID; runIsBool tells whether `run` was given as a bool
remoteAddPID(channelP, channelS, P, I, run, runIsBool, status) ==
    LET R(res, calls) == Rec("remoteAddPID", channelP, channelS, res, calls)
        call == Call("PID_Add_Remote", channelP, channelS, P, I, BoolToInt(run), status)
    IN
    IF ~insideRemote
    THEN /\ last' = R("InvalidState", <<>>)
         /\ UNCHANGED <<insideRemote, confPIDs, runningPIDs, calib, Instr_ID>>
    ELSE IF ~_channelCheck(channelP) \/ ~_channelCheck(channelS)
    THEN /\ last' = R("ValidationError", <<>>)
         /\ UNCHANGED <<insideRemote, confPIDs, runningPIDs, calib, Instr_ID>>
    ELSE IF ~runIsBool
    THEN /\ last' = R("TypeError", <<>>)
         /\ UNCHANGED <<insideRemote, confPIDs, runningPIDs, calib, Instr_ID>>
    ELSE IF ~HasHandleAttr
    THEN /\ last' = R("AttributeError", <<>>)
         /\ UNCHANGED <<insideRemote, confPIDs, runningPIDs, calib, Instr_ID>>
    ELSE IF raiseEFerror(status) # "ok"
    THEN /\ last' = R(raiseEFerror(status), <<call>>)
         /\ UNCHANGED <<insideRemote, confPIDs, runningPIDs, calib, Instr_ID>>
    ELSE IF ~IndexOK(SlotIndex(channelP))
    THEN \* line 362: the list assignment raises, after the driver call
         /\ last' = R("IndexError", <<call>>)
         /\ UNCHANGED <<insideRemote, confPIDs, runningPIDs, calib, Instr_ID>>
    ELSE /\ last' = R("ok", <<call>>)
         /\ confPIDs' = [confPIDs EXCEPT ![SlotIndex(channelP)] = PIDdict(P, I)]
         /\ runningPIDs' = [runningPIDs EXCEPT
                               ![SlotIndex(channelP)] = IntToBool(BoolToInt(run))]
         /\ UNCHANGED <<insideRemote, calib, Instr_ID>>

\* variant of RunningValue: bool() of the c_int32 object, not of its value
RunningValue_OfObject(run) == TRUE

\* line 384: the flag stored by _remoteStartstopPID
RunningValue(run) == IntToBool(BoolToInt(run))

\* Pelve._remoteStartstopPID with the status check of its caller
\* (remotePausePID: run = False, remoteStartPID: run = True)
_remoteStartstopPID(op, channel, run, status) ==
    LET R(res, calls) == Rec(op, channel, 0, res, calls) IN
    IF ~_channelCheck(channel)
    THEN /\ last' = R("ValidationError", <<>>)
         /\ UNCHANGED <<insideRemote, confPIDs, runningPIDs, calib, Instr_ID>>
    ELSE IF ~IndexOK(SlotIndex(channel))
    THEN /\ last' = R("IndexError", <<>>)
         /\ UNCHANGED <<insideRemote, confPIDs, runningPIDs, calib, Instr_ID>>
    ELSE IF ~confPIDs[SlotIndex(channel)].isDict
    THEN /\ last' = R("ConfigError", <<>>)
         /\ UNCHANGED <<insideRemote, confPIDs, runningPIDs, calib, Instr_ID>>
    ELSE IF ~HasHandleAttr
    THEN /\ last' = R("AttributeError", <<>>)
         /\ UNCHANGED <<insideRemote, confPIDs, runningPIDs, calib, Instr_ID>>
    ELSE \* the flag is stored before the caller checks the status
         /\ last' = R(raiseEFerror(status),
                      <<Call("PID_Set_Running_Remote", channel, 0, 0, 0,
                             BoolToInt(run), status)>>)
         /\ runningPIDs' = [runningPIDs EXCEPT ![SlotIndex(channel)] = RunningValue(run)]
         /\ UNCHANGED <<insideRemote, confPIDs, calib, Instr_ID>>

remotePausePID(channel, status) == _remoteStartstopPID("remotePausePID", channel, FALSE, status)

remoteStartPID(channel, status) == _remoteStartstopPID("remoteStartPID", channel, TRUE, status)

\* Pelve.remoteResetPID
remoteResetPID(channel, status) ==
    /\ last' =
         IF ~_channelCheck(channel)
         THEN Rec("remoteResetPID", channel, 0, "ValidationError", <<>>)
         ELSE IF ~IndexOK(SlotIndex(channel))
         THEN Rec("remoteResetPID", channel, 0, "IndexError", <<>>)
         ELSE IF ~confPIDs[SlotIndex(channel)].isDict
         THEN Rec("remoteResetPID", channel, 0, "ConfigError", <<>>)
         ELSE IF ~HasHandleAttr
         THEN Rec("remoteResetPID", channel, 0, "AttributeError", <<>>)
         ELSE Rec("remoteResetPID", channel, 0, raiseEFerror(status),
                  <<Call("PID_Set_Params_Remote", channel, 0,
                         confPIDs[SlotIndex(channel)].P,
                         confPIDs[SlotIndex(channel)].I,
                         BoolToInt(TRUE), status)>>)
    /\ UNCHANGED <<insideRemote, confPIDs, runningPIDs, calib, Instr_ID>>

\* Pelve.remoteChangePID
remoteChangePID(channel, P, I, reset, status) ==
    LET R(res, calls) == Rec("remoteChangePID", channel, 0, res, calls) IN
    IF ~_channelCheck(channel)
    THEN /\ last' = R("ValidationError", <<>>)
         /\ UNCHANGED <<insideRemote, confPIDs, runningPIDs, calib, Instr_ID>>
    ELSE IF ~IndexOK(SlotIndex(channel))
    THEN /\ last' = R("IndexError", <<>>)
         /\ UNCHANGED <<insideRemote, confPIDs, runningPIDs, calib, Instr_ID>>
    ELSE IF ~confPIDs[SlotIndex(channel)].isDict
    THEN /\ last' = R("ConfigError", <<>>)
         /\ UNCHANGED <<insideRemote, confPIDs, runningPIDs, calib, Instr_ID>>
    ELSE IF ~HasHandleAttr
    THEN /\ last' = R("AttributeError", <<>>)
         /\ UNCHANGED <<insideRemote, confPIDs, runningPIDs, calib, Instr_ID>>
    ELSE /\ last' = R(raiseEFerror(status),
                      <<Call("PID_Set_Params_Remote", channel, 0, P, I,
                             BoolToInt(reset), status)>>)
         /\ confPIDs' = IF raiseEFerror(status) = "ok"
                        THEN [confPIDs EXCEPT ![SlotIndex(channel)] = PIDdict(P, I)]
                        ELSE confPIDs
         /\ UNCHANGED <<insideRemote, runningPIDs, calib, Instr_ID>>

\* statuses of a driver call that carries self.Instr_ID: the driver knows
\* only a handle it initialised and has not destroyed; for any other it
\* reports failure (ERRORCODES 8006, "No Instrument with selected ID")
HandleStatuses == IF Instr_ID = "valid" THEN Statuses ELSE Statuses \ {0}

Next ==
    \/ \E s \in Statuses : open(s) /\ PelveOnly
    \/ \E s \in HandleStatuses : stopRemote(s) /\ PelveOnly
    \/ \E s1, s2 \in HandleStatuses, v \in BOOLEAN : close(s1, s2, v) /\ PelveOnly
    \/ \E k \in PathKinds, f \in FileStates : loadCallibration(k, f) /\ PelveOnly
    \/ \E k \in PathKinds, t \in Tables, s \in HandleStatuses : performCallibration(k, t, s) /\ PelveOnly
    \/ \E c \in ChannelInputs, p \in Pressures, s \in HandleStatuses : setPressure(c, p, s) /\ PelveOnly
    \/ \E c \in ChannelInputs, s \in HandleStatuses : getPressure(c, s) /\ PelveOnly
    \/ \E it \in BOOLEAN, n \in (BulkLength - 1)..(BulkLength + 1), s \in HandleStatuses :
          setPressureBulk(it, n, s) /\ PelveOnly
    \/ \E c \in ChannelInputs, sa \in SensorArgs, s \in HandleStatuses :
          addSensor(c, sa[1], sa[2], s) /\ PelveOnly
    \/ \E c \in ChannelInputs, s \in HandleStatuses : getSensorData(c, s) /\ PelveOnly
    \/ \E s \in HandleStatuses : startRemote(s) /\ PelveOnly
    \/ \E c \in ChannelInputs, s \in HandleStatuses : remoteGetData(c, s) /\ PelveOnly
    \/ \E c \in ChannelInputs, t \in Pressures, s \in HandleStatuses : remoteSetTarget(c, t, s) /\ PelveOnly
    \/ \E c \in ChannelInputs, s \in HandleStatuses : getPressureUniversal(c, s) /\ PelveOnly
    \/ \E c \in ChannelInputs, s \in HandleStatuses : getFlowUniversal(c, s) /\ PelveOnly
    \/ \E cp \in ChannelInputs, cs \in SensorChannelInputs, P \in Gains,
          I \in IntegralGains, run \in RunArgs, s \in HandleStatuses :
          remoteAddPID(cp, cs, P, I, run[1], run[2], s) /\ PelveOnly
    \/ \E c \in ChannelInputs, s \in HandleStatuses : remotePausePID(c, s) /\ PelveOnly
    \/ \E c \in ChannelInputs, s \in HandleStatuses : remoteStartPID(c, s) /\ PelveOnly
    \/ \E c \in ChannelInputs, s \in HandleStatuses : remoteResetPID(c, s) /\ PelveOnly
    \/ \E c \in ChannelInputs, P \in Gains, I \in IntegralGains, reset \in BOOLEAN,
          s \in HandleStatuses :
          remoteChangePID(c, P, I, reset, s) /\ PelveOnly

Spec == Init /\ [][Next]_vars

\* ===================================================================
\* The valve session (class MUXelve, src/pycrofluidics/elvemux.py)
\* ===================================================================
\* A call of the valve session runs in steps, one per driver call, because
\* the distributor moves on its own between two position queries.  mpc is
\* the step the running call is at ("idle": no call is running).
\*
\* statuses of a driver call that carries the valve session's handle
MuxStatuses == IF muxInstr = "valid" THEN Statuses ELSE Statuses \ {0}

\* the running call ends: with an exception, or by returning `ret`
Fail(hist, res) ==
    [pc |-> "idle", frame |-> IdleFrame, hist |-> [hist EXCEPT !.res = res]]
Done(hist, ret) ==
    [pc |-> "idle", frame |-> IdleFrame,
     hist |-> [hist EXCEPT !.res = "ok", !.ret = ret]]

Apply(c) == mpc' = c.pc /\ mframe' = c.frame /\ mhist' = c.hist

\* set_valve, line 102
ValidValve(valve_index) == 0 < valve_index /\ valve_index < MaxValve + 1

\* set_valve, lines 101-103: the call starts (stage 0: called by the user,
\* stages 1..3: the three calls made by home)
EnterSetValve(frame, hist, valve_index, blocking, stage) ==
    IF ~ValidValve(valve_index)
    THEN Fail(hist, "ValidationError")
    ELSE [pc |-> "set_valve_104",
          frame |-> [frame EXCEPT !.index = valve_index, !.blocking = blocking,
                                  !.stage = stage],
          hist |-> [hist EXCEPT !.index = valve_index, !.first = NoReturn,
                                !.moved = FALSE, !.after = <<>>]]

\* variant of ReturnSetValve: home goes from position 1 to start_channel
ReturnSetValve_SkipsEnd(frame, hist) ==
    IF frame.stage = 1 THEN EnterSetValve(frame, hist, frame.start, TRUE, 3)
    ELSE IF frame.stage = 3 THEN Done(hist, NoReturn)
    ELSE Done(hist, frame.index)

\* set_valve returns valve_index: to home (lines 84-86), or to the user
ReturnSetValve(frame, hist) ==
    IF frame.stage = 1 THEN EnterSetValve(frame, hist, MaxValve, TRUE, 2)
    ELSE IF frame.stage = 2 THEN EnterSetValve(frame, hist, frame.start, TRUE, 3)
    ELSE IF frame.stage = 3 THEN Done(hist, NoReturn)
    ELSE Done(hist, frame.index)

\* wait_for_valve_movement, lines 133-134: current_valve = 0, t0 = now
EnterWait(frame, hist, timeout, waiter) ==
    [pc |-> "wait_136",
     frame |-> [frame EXCEPT !.timeout = timeout, !.elapsed = 0, !.waiter = waiter],
     hist |-> [hist EXCEPT !.seen = FALSE, !.wtimeout = timeout, !.welapsed = 0]]

\* wait_for_valve_movement returns True: to home (line 84), to set_valve
\* (line 115), or to the user
ReturnWait(frame, hist) ==
    LET h == [hist EXCEPT !.log = Append(@, Ev("wait", frame.timeout, 0))] IN
    IF frame.waiter = "home" THEN EnterSetValve(frame, h, 1, TRUE, 1)
    ELSE IF frame.waiter = "set_valve"
    THEN [pc |-> "set_valve_115a", frame |-> frame, hist |-> h]
    ELSE Done(h, 1)

\* get_valve: how the query ends when the driver returns `status`
GetValveResult(status) ==
    IF muxInstr = "unset" THEN "AttributeError" ELSE raiseEFerror(status)

\* the distributor accepts a command that ends at position dest
StartMove(dest) ==
    [rep |-> valve.rep, dest |-> dest, pending |-> (valve.rep # Busy)]

\* home, lines 74-83: the homing command and the start of the wait
HomeStart(hist, start_channel, hasHandle, status) ==
    IF ~hasHandle THEN Fail(hist, "AttributeError")
    ELSE LET h == [hist EXCEPT !.log = Append(@, Ev("MUX_DRI_Send_Command", 0, status))]
         IN  IF raiseEFerror(status) # "ok" THEN Fail(h, "DeviceError")
             ELSE EnterWait([IdleFrame EXCEPT !.start = start_channel], h,
                            HomeTimeout, "home")

\* MUXelve.open; homeStatus and homed (where homing leaves the distributor)
\* belong to the homing command of home()
MUX_open(auto_home, status, homeStatus, homed) ==
    /\ mpc = "idle"
    /\ muxInstr' = IF status = 0 THEN "valid" ELSE "invalid"
    /\ LET h == [NewHist("open", BoolToInt(auto_home), FALSE) EXCEPT
                    !.log = <<Ev("MUX_DRI_Initialization", 0, status)>>]
       IN  Apply(IF raiseEFerror(status) # "ok" THEN Fail(h, "DeviceError")
                 ELSE IF auto_home THEN HomeStart(h, 1, TRUE, homeStatus)
                 ELSE Done(h, NoReturn))
    /\ valve' = IF status = 0 /\ auto_home /\ homeStatus = 0
                THEN StartMove(homed) ELSE valve
    /\ ValveOnly

\* MUXelve.close
MUX_close(status, stillValid) ==
    /\ mpc = "idle"
    /\ IF muxInstr = "unset"
       THEN /\ Apply(Fail(NewHist("close", 0, FALSE), "AttributeError"))
            /\ UNCHANGED muxInstr
       ELSE /\ Apply(LET h == [NewHist("close", 0, FALSE) EXCEPT
                                  !.log = <<Ev("MUX_DRI_Destructor", 0, status)>>]
                     IN  IF raiseEFerror(status) # "ok" THEN Fail(h, "DeviceError")
                         ELSE Done(h, NoReturn))
            /\ muxInstr' = IF status = 0 \/ ~stillValid THEN "destroyed" ELSE muxInstr
    /\ UNCHANGED valve
    /\ ValveOnly

\* MUXelve.home, up to the start of its wait
home(start_channel, status, homed) ==
    /\ mpc = "idle"
    /\ Apply(HomeStart(NewHist("home", start_channel, TRUE), start_channel,
                       muxInstr # "unset", status))
    /\ valve' = IF muxInstr # "unset" /\ status = 0 THEN StartMove(homed) ELSE valve
    /\ UNCHANGED muxInstr
    /\ ValveOnly

\* MUXelve.set_valve called by the user: lines 101-103
set_valve(valve_index, blocking) ==
    /\ mpc = "idle"
    /\ Apply(EnterSetValve(IdleFrame, NewHist("set_valve", valve_index, blocking),
                           valve_index, blocking, 0))
    /\ UNCHANGED <<muxInstr, valve>>
    /\ ValveOnly

\* variant of AlreadyThere: the position is not compared
AlreadyThere_Never(position, valve_index) == FALSE

\* set_valve, line 104: "am allready there"
AlreadyThere(position, valve_index) == position = valve_index

\* set_valve, lines 104-105: the query before the move
set_valve_104(status) ==
    /\ mpc = "set_valve_104"
    /\ Apply(IF GetValveResult(status) # "ok"
             THEN Fail(mhist, GetValveResult(status))
             ELSE LET h == [mhist EXCEPT !.queried = TRUE, !.first = valve.rep] IN
                  IF AlreadyThere(valve.rep, mframe.index)
                  THEN ReturnSetValve(mframe,
                          [h EXCEPT !.log = Append(@, Ev("return_105", mframe.index, 0))])
                  ELSE [pc |-> "set_valve_107", frame |-> mframe, hist |-> h])
    /\ UNCHANGED <<muxInstr, valve>>
    /\ ValveOnly

\* set_valve, lines 106-114: the move command, and the start of the wait
\* of a blocking call
set_valve_107(status) ==
    /\ mpc = "set_valve_107"
    /\ LET h == [mhist EXCEPT
                    !.log = Append(@, Ev("MUX_DRI_Set_Valve", mframe.index, status)),
                    !.moved = (status = 0)]
       IN  Apply(IF raiseEFerror(status) # "ok" THEN Fail(h, "DeviceError")
                 ELSE IF mframe.blocking
                 THEN EnterWait(mframe, h, DefaultTimeout, "set_valve")
                 ELSE [pc |-> "set_valve_115a", frame |-> mframe, hist |-> h])
    /\ valve' = IF status = 0 THEN StartMove(mframe.index) ELSE valve
    /\ UNCHANGED muxInstr
    /\ ValveOnly

\* set_valve, line 115, left operand: self.get_valve() != valve_index
set_valve_115a(status) ==
    /\ mpc = "set_valve_115a"
    /\ Apply(IF GetValveResult(status) # "ok"
             THEN Fail(mhist, GetValveResult(status))
             ELSE LET h == [mhist EXCEPT !.queried = TRUE,
                                         !.after = Append(@, valve.rep)] IN
                  IF valve.rep # mframe.index
                  THEN [pc |-> "set_valve_115b", frame |-> mframe, hist |-> h]
                  ELSE ReturnSetValve(mframe, h))
    /\ UNCHANGED <<muxInstr, valve>>
    /\ ValveOnly

\* set_valve, line 115, right operand: self.get_valve() != 0
set_valve_115b(status) ==
    /\ mpc = "set_valve_115b"
    /\ Apply(IF GetValveResult(status) # "ok"
             THEN Fail(mhist, GetValveResult(status))
             ELSE LET h == [mhist EXCEPT !.after = Append(@, valve.rep)] IN
                  IF valve.rep # Busy
                  THEN [pc |-> "set_valve_116", frame |-> mframe, hist |-> h]
                  ELSE ReturnSetValve(mframe, h))
    /\ UNCHANGED <<muxInstr, valve>>
    /\ ValveOnly

\* set_valve, line 116: the query for the message, and the raise
set_valve_116(status) ==
    /\ mpc = "set_valve_116"
    /\ Apply(IF GetValveResult(status) # "ok"
             THEN Fail(mhist, GetValveResult(status))
             ELSE Fail(mhist, "DeviceError(position)"))
    /\ UNCHANGED <<muxInstr, valve>>
    /\ ValveOnly

\* MUXelve.get_valve called by the user
get_valve(status) ==
    /\ mpc = "idle"
    /\ Apply(LET h == NewHist("get_valve", 0, FALSE) IN
             IF GetValveResult(status) # "ok" THEN Fail(h, GetValveResult(status))
             ELSE Done([h EXCEPT !.queried = TRUE], valve.rep))
    /\ UNCHANGED <<muxInstr, valve>>
    /\ ValveOnly

\* MUXelve.wait_for_valve_movement called by the user: lines 133-134
wait_for_valve_movement(timeout) ==
    /\ mpc = "idle"
    /\ Apply(EnterWait(IdleFrame, NewHist("wait_for_valve_movement", timeout, TRUE),
                       timeout, "top"))
    /\ UNCHANGED <<muxInstr, valve>>
    /\ ValveOnly

\* variant of TimedOut: the test is made with >=
TimedOut_Inclusive(elapsed, timeout) == elapsed >= timeout

\* wait_for_valve_movement, line 137: time.time() - t0 > timeout
TimedOut(elapsed, timeout) == elapsed > timeout

\* wait_for_valve_movement, lines 135-139: one turn of the loop.  The poll
\* and the clock read that follows it take `d` seconds together.
wait_136(d, status) ==
    /\ mpc = "wait_136"
    /\ LET elapsed == mframe.elapsed + d
           f == [mframe EXCEPT !.elapsed = elapsed]
           h == [mhist EXCEPT !.queried = TRUE, !.welapsed = elapsed,
                              !.seen = (valve.rep # Busy /\ elapsed <= mframe.timeout)]
       IN  Apply(IF GetValveResult(status) # "ok"
                 THEN Fail(mhist, GetValveResult(status))
                 ELSE IF TimedOut(elapsed, mframe.timeout)
                 THEN Fail(h, "DeviceError(timeout)")
                 ELSE IF valve.rep # Busy THEN ReturnWait(f, h)
                 ELSE [pc |-> "wait_136", frame |-> f, hist |-> h])
    /\ UNCHANGED <<muxInstr, valve>>
    /\ ValveOnly

\* the distributor starts to turn: it reports Busy from now on
ValveStarts ==
    /\ valve.pending
    /\ valve' = [valve EXCEPT !.rep = Busy, !.pending = FALSE]
    /\ UNCHANGED <<muxInstr, mpc, mframe, mhist>>
    /\ ValveOnly

\* the distributor arrives: it reports the position it was sent to
ValveArrives ==
    /\ valve.rep = Busy
    /\ valve' = [valve EXCEPT !.rep = valve.dest]
    /\ UNCHANGED <<muxInstr, mpc, mframe, mhist>>
    /\ ValveOnly

NextValve ==
    \/ \E a \in BOOLEAN, s, s2 \in Statuses, p \in ValveRest : MUX_open(a, s, s2, p)
    \/ \E s \in MuxStatuses, v \in BOOLEAN : MUX_close(s, v)
    \/ \E c \in ValveInputs, s \in MuxStatuses, p \in ValveRest : home(c, s, p)
    \/ \E i \in ValveInputs, b \in BOOLEAN : set_valve(i, b)
    \/ \E s \in MuxStatuses : set_valve_104(s)
    \/ \E s \in MuxStatuses : set_valve_107(s)
    \/ \E s \in MuxStatuses : set_valve_115a(s)
    \/ \E s \in MuxStatuses : set_valve_115b(s)
    \/ \E s \in MuxStatuses : set_valve_116(s)
    \/ \E s \in MuxStatuses : get_valve(s)
    \/ \E t \in WaitTimeouts : wait_for_valve_movement(t)
    \/ \E d \in PollTimes, s \in MuxStatuses : wait_136(d, s)
    \/ ValveStarts
    \/ ValveArrives

SpecValve == Init /\ [][NextValve]_vars

\* the calling thread keeps running and its clock advances: a turn of the
\* wait loop that takes time is eventually made
SpecValveLive ==
    SpecValve /\ WF_vars(\E d \in PollTimes \ {0}, s \in MuxStatuses : wait_136(d, s))

\* ===================================================================
\* The acquisition routines (src/pycrofluidics/protocols.py)
\* ===================================================================
\* acquireData and acquireDataCont run on one thread; a turn of their loop
\* is one step.  Time is counted in clock ticks from measurementStart.
\* The device's signals are a fixed function of channel and turn, so a row
\* shows which turn each of its values was read in.
Rates == {5, 10}                      \* acquisitionRate, in Hz
Durations == {0, 1}                   \* measureTime, in seconds
PressureChannels == MinChannel..MaxChannel     \* range(4), i + 1
Reads == 1..(2 * MaxChannel)          \* the reads of a turn, in order:
                                      \*   4 pressures, then 4 sensors
PressureSignal(i, turn) == (i + turn) % 3
SensorSignal(i, turn) == (2 * i + turn) % 3

\* session states an acquisition may be started in: ready for direct
\* reads; in Remote-Mode; opened without a calibration table; not opened
Sessions ==
    {[insideRemote |-> FALSE, calib |-> 1, Instr_ID |-> "valid"],
     [insideRemote |-> TRUE, calib |-> 1, Instr_ID |-> "valid"],
     [insideRemote |-> FALSE, calib |-> NoCalib, Instr_ID |-> "valid"],
     [insideRemote |-> FALSE, calib |-> NoCalib, Instr_ID |-> "unset"]}

\* a pressure session in one of these states, no acquisition started
InitAcquire ==
    /\ \E ss \in Sessions :
          /\ insideRemote = ss.insideRemote
          /\ calib = ss.calib
          /\ Instr_ID = ss.Instr_ID
    /\ confPIDs = [i \in Slots |-> NoPID]
    /\ runningPIDs = [i \in Slots |-> FALSE]
    /\ last = Rec("__init__", 0, 0, "ok", <<>>)
    /\ MUXInit
    /\ apc = "idle"
    /\ acq = IdleAcq
    /\ data = <<>>
    /\ files = InitFiles
    /\ ahist = NoRun
    /\ InjInit
    /\ SweepInit
    /\ AuxInit

\* lines 131-136 / 186-191: the locals at the start of the loop
StartAcq(fn, savePath, acquisitionRate, measureTime) ==
    [fn |-> fn, savePath |-> savePath, breakTime |-> TicksPerSecond \div acquisitionRate,
     measurementEnd |-> measureTime * TicksPerSecond, now |-> 0]

\* protocols.acquireData, up to its loop
acquireData(acquisitionRate, measureTime) ==
    /\ apc = "idle"
    /\ apc' = "loop"
    /\ acq' = StartAcq("acquireData", "none", acquisitionRate, measureTime)
    /\ data' = <<>>
    /\ ahist' = [NoRun EXCEPT !.res = "running"]
    /\ UNCHANGED files
    /\ AcqOnly

\* line 182: open(savePath, "w"), with the default buffering
OpenW == [exists |-> TRUE, lines |-> <<>>, pending |-> <<>>]

\* lines 184 / 215: f.write(...) of one line; a full buffer is emptied into
\* the file first
Write(file, line) ==
    IF Len(file.pending) >= BufferLines
    THEN [file EXCEPT !.lines = @ \o file.pending, !.pending = <<line>>]
    ELSE [file EXCEPT !.pending = Append(@, line)]

\* line 182: leaving the `with` block closes the file, which empties the
\* buffer into it
Close(file) == [file EXCEPT !.lines = @ \o file.pending, !.pending = <<>>]

\* the files after the routine has left its loop
FilesAtExit ==
    IF acq.fn = "acquireDataCont"
    THEN [files EXCEPT ![acq.savePath] = Close(@)]
    ELSE files

\* variant of Occupied: the save path is not looked at
Occupied_Unchecked(file) == FALSE

\* acquireDataCont, line 177: savePath.exists()
Occupied(file) == file.exists

\* protocols.acquireDataCont, up to its loop: the check of the save path,
\* open(savePath, "w") and the header line
acquireDataCont(savePath, acquisitionRate, measureTime) ==
    /\ apc = "idle"
    /\ acq' = StartAcq("acquireDataCont", savePath, acquisitionRate, measureTime)
    /\ data' = <<>>
    /\ IF Occupied(files[savePath])
       THEN /\ apc' = "done"
            /\ ahist' = [NoRun EXCEPT !.res = "FileExistsError",
                                      !.preFile = files[savePath]]
            /\ UNCHANGED files
       ELSE /\ apc' = "loop"
            /\ ahist' = [NoRun EXCEPT !.res = "running",
                                      !.preFile = files[savePath]]
            /\ files' = [files EXCEPT ![savePath] = Write(OpenW, Header)]
    /\ AcqOnly

\* variant of PastEnd: the test is made with >=
PastEnd_Inclusive(startTime, measurementEnd) == startTime >= measurementEnd

\* line 139: startTime > measurementEnd
PastEnd(startTime, measurementEnd) == startTime > measurementEnd

\* lines 143 / 150: how the accessor call for read k ends
ReadResult(k, status) ==
    IF k <= MaxChannel
    THEN getPressureResult("getPressure", k, status).res
    ELSE getSensorDataResult("getSensorData", k - MaxChannel, status).res

\* lines 144 / 151: except ConnectionError
Caught(res) == res = "DeviceError"

\* variant of StoredValue: a failed read is stored as zero
StoredValue_Zero(res, reading) == IF res = "ok" THEN reading ELSE 0

\* lines 143-147: the value stored in p[i] / s[i]
StoredValue(res, reading) == IF res = "ok" THEN reading ELSE NaN

\* lines 160-161: the sleep after a turn that started at startTime
Slept(startTime, now, breakTime) ==
    IF startTime - now < breakTime THEN breakTime ELSE 0

\* one turn of the loop of acquireData / acquireDataCont (lines 137-163 /
\* 192-220).  F: the reads whose driver call fails; d: the time the reads
\* take.  A run meets at most MaxFaults failures and MaxLate ticks of read
\* time.
acquire_137(F, d) ==
    /\ apc = "loop"
    /\ Cardinality(F) + Cardinality(ahist.faults) <= MaxFaults
    /\ d + ahist.late <= MaxLate
    /\ LET startTime == acq.now
           turn == ahist.ticks + 1
           out == [k \in Reads |-> ReadResult(k, IF k \in F THEN -8006 ELSE 0)]
           escaping == {k \in Reads : out[k] # "ok" /\ ~Caught(out[k])}
           first == CHOOSE k \in escaping : \A j \in escaping : k <= j
           row == Row([i \in PressureChannels |->
                          StoredValue(out[i], PressureSignal(i, turn))],
                      [i \in PressureChannels |->
                          StoredValue(out[MaxChannel + i], SensorSignal(i, turn))])
           endTime == startTime + d
       IN  IF PastEnd(startTime, acq.measurementEnd)
           THEN /\ apc' = "done"
                /\ ahist' = [ahist EXCEPT !.res = "ok", !.breakStart = startTime]
                /\ files' = FilesAtExit
                /\ UNCHANGED <<acq, data>>
           ELSE IF escaping # {}
           THEN \* the exception leaves the routine; the `with` block of
                \* acquireDataCont closes the file
                /\ apc' = "done"
                /\ ahist' = [ahist EXCEPT !.res = out[first],
                                          !.reads = @ + first]
                /\ files' = FilesAtExit
                /\ UNCHANGED <<acq, data>>
           ELSE /\ apc' = "loop"
                /\ data' = IF acq.fn = "acquireData" THEN Append(data, row)
                           ELSE <<row>>
                /\ files' = IF acq.fn = "acquireData" THEN files
                            ELSE [files EXCEPT ![acq.savePath] = Write(@, row)]
                /\ acq' = [acq EXCEPT
                              !.now = endTime + Slept(startTime, endTime, acq.breakTime)]
                /\ ahist' = [ahist EXCEPT
                                !.ticks = turn,
                                !.faults = @ \cup {<<turn, k>> : k \in F},
                                !.reads = @ + Cardinality(Reads),
                                !.late = @ + d,
                                !.rowStart = startTime,
                                !.prevRowTime = ahist.rowTime,
                                !.rowTime = 2 * startTime + d]
    /\ AcqOnly

\* the failures and delays a turn can meet.  The driver call can fail in
\* the first and the last read of each of the two `for` loops and in the
\* read of sensor channel 2; the other reads run the same lines.
FaultyReads == {1, MaxChannel, MaxChannel + 2, 2 * MaxChannel}
TurnFaults == {F \in SUBSET FaultyReads : Cardinality(F) <= MaxFaults}
TurnTimes == 0..MaxLate

NextAcquire ==
    \/ \E r \in Rates, m \in Durations : acquireData(r, m)
    \/ \E path \in Paths, r \in Rates, m \in Durations :
          acquireDataCont(path, r, m)
    \/ \E F \in TurnFaults, d \in TurnTimes : acquire_137(F, d)

SpecAcquire == InitAcquire /\ [][NextAcquire]_vars

\* the calling thread keeps running: the next turn of the loop is made
SpecAcquireLive ==
    SpecAcquire /\ WF_vars(\E F \in TurnFaults, d \in TurnTimes : acquire_137(F, d))

\* ===================================================================
\* The injection routine (protocols.injectVolume)
\* ===================================================================
\* injectVolume runs on one thread and calls the pressure session and the
\* valve session.  A call of set_valve runs as the steps of the valve
\* session above, so the distributor moves while injectVolume goes on.
\* `log` of ihist holds the calls injectVolume made on the two sessions, in
\* order, each with the way it ended ("called" for a set_valve that has
\* not returned yet).
DefaultMaxFlow == 80                  \* max_flow = 80
InjPressures == {0, MaxPressure}      \* pressure: the default False, or a value
InjFlowRates == {0, 1}                \* flow_rate: the default False, or a value
InjectValves == {2, MaxValve + 1}     \* inject_valve_channel
StopValves == {0, 2, MaxValve}        \* stop_valve_channel: the default False,
                                      \*   the inject valve, another valve
PollRates == {10, 20}                 \* pollrate, in Hz
FlowReadings == {DefaultMaxFlow - 20, 2 * (DefaultMaxFlow - 20)}
Dose == (DefaultMaxFlow - 20) * 2     \* what the lower reading delivers in
                                      \*   two clock ticks
Volumes == {k * Dose : k \in 1..MaxDoses}
TickTimes == 0..MaxTickTime
InjPressureChannel == 1
InjSensorChannel == 2

\* `if x:` for a number or False
Given(x) == x # 0

\* a call injectVolume made on a session
InjCall(op, ch, val, res) == [op |-> op, ch |-> ch, val |-> val, res |-> res]

\* the sessions an injection may be started with: the pressure session
\* open with a calibration table, in direct mode or in Remote-Mode; the
\* valve session open, the distributor at rest
InitInject ==
    /\ insideRemote \in BOOLEAN
    /\ calib = 1
    /\ Instr_ID = "valid"
    /\ confPIDs = [i \in Slots |-> NoPID]
    /\ runningPIDs = [i \in Slots |-> FALSE]
    /\ last = Rec("__init__", 0, 0, "ok", <<>>)
    /\ muxInstr = "valid"
    /\ valve = [rep |-> 1, dest |-> 1, pending |-> FALSE]
    /\ mpc = "idle"
    /\ mframe = IdleFrame
    /\ mhist = [op |-> "open", arg |-> 0, blocking |-> FALSE, open |-> FALSE,
                again |-> FALSE, res |-> "ok", ret |-> NoReturn,
                log |-> <<Ev("MUX_DRI_Initialization", 0, 0)>>,
                queried |-> FALSE, index |-> 0, first |-> NoReturn,
                moved |-> FALSE, after |-> <<>>, seen |-> FALSE,
                wtimeout |-> 0, welapsed |-> 0]
    /\ AcqInit
    /\ InjInit
    /\ SweepInit
    /\ AuxInit

\* variant of BothGiven: the two arguments are not compared
BothGiven_Unchecked(pressure, flow_rate) == FALSE

\* line 43: if pressure and flow_rate
BothGiven(pressure, flow_rate) == Given(pressure) /\ Given(flow_rate)

\* the routine ends with an exception / returns
InjEnds(res) ==
    /\ ipc' = "done"
    /\ ihist' = [ihist EXCEPT !.res = res]

\* a call of muxelve.set_valve(valve_index) starts: lines 55 / 69
InjSetValve(hist, valve_index, pc) ==
    /\ ipc' = pc
    /\ ihist' = [hist EXCEPT !.log = Append(@, InjCall("set_valve", valve_index, 0, "called"))]
    /\ Apply(EnterSetValve(IdleFrame, NewHist("set_valve", valve_index, FALSE),
                           valve_index, FALSE, 0))
    /\ UNCHANGED <<muxInstr, valve>>

\* the call of set_valve has returned or raised: its entry in the log
InjValveReturned ==
    [ihist EXCEPT !.log[Len(ihist.log)].res = mhist.res]

\* protocols.injectVolume, lines 42-55: the check of the arguments, the
\* pressure or the target, and the call of set_valve
injectVolume(inject_valve_channel, volume, stop_valve_channel, pressure, flow_rate, pollrate, status) ==
    /\ ipc = "idle"
    /\ mpc = "idle"
    /\ inj' = [IdleInj EXCEPT
                  !.pressure_channel = InjPressureChannel,
                  !.flowrate_sensor_channel = InjSensorChannel,
                  !.inject_valve_channel = inject_valve_channel,
                  !.volume = volume,
                  !.stop_valve_channel = stop_valve_channel,
                  !.pressure = pressure,
                  !.flow_rate = flow_rate,
                  !.max_flow = DefaultMaxFlow,
                  !.loop_time = TicksPerSecond \div pollrate]
    /\ LET started == [NoInjection EXCEPT !.res = "running"]
           set == IF Given(pressure)
                  THEN setPressureResult(InjPressureChannel, pressure, status)
                  ELSE remoteSetTargetResult(InjSensorChannel, flow_rate, status)
           call == InjCall(set.op, set.ch,
                           IF Given(pressure) THEN pressure ELSE flow_rate, set.res)
           h == [started EXCEPT !.log = <<call>>]
       IN  IF BothGiven(pressure, flow_rate)
           THEN /\ ipc' = "done"
                /\ ihist' = [started EXCEPT !.res = "ConfigError"]
                /\ UNCHANGED <<last, muxVars>>
           ELSE IF Given(pressure) \/ Given(flow_rate)
           THEN /\ last' = set
                /\ IF set.res # "ok"
                   THEN /\ ipc' = "done"
                        /\ ihist' = [h EXCEPT !.res = set.res]
                        /\ UNCHANGED muxVars
                   ELSE InjSetValve(h, inject_valve_channel, "set_valve_55")
           ELSE /\ InjSetValve(started, inject_valve_channel, "set_valve_55")
                /\ UNCHANGED last
    /\ UNCHANGED <<insideRemote, confPIDs, runningPIDs, calib, Instr_ID, notInjVars>>

\* line 55: set_valve(inject_valve_channel) has returned or raised
inject_55 ==
    /\ ipc = "set_valve_55"
    /\ mpc = "idle"
    /\ ipc' = IF mhist.res = "ok" THEN "loop" ELSE "done"
    /\ ihist' = [InjValveReturned EXCEPT
                    !.res = IF mhist.res = "ok" THEN "running" ELSE mhist.res]
    /\ UNCHANGED <<inj, pelveVars, muxVars, notInjVars>>

\* variant of LoopDone: the loop runs one turn less
LoopDone_Early(volume_injected, volume) == volume_injected + Dose \div 2 >= volume

\* line 56: the loop is left when volume_injected < volume fails
LoopDone(volume_injected, volume) == volume_injected >= volume

\* line 59: flow * (loop_time/60), in 1/VolumeUnits ul
Injected(flow, loop_time) == flow * loop_time

\* line 67: time.sleep(loop_time - (te-ts)) raises ValueError for a
\* negative length
SleepResult(sleeptime) == IF sleeptime < 0 THEN "ValueError(sleep)" ELSE "ok"

\* lines 56-74: the test of the loop, and then either one turn of the loop
\* (the flow read with the status of its driver call, the reading `flow`,
\* the time `d` from ts to te) or the actions after the loop
inject_56(flow, status, d) ==
    /\ ipc = "loop"
    /\ mpc = "idle"
    /\ IF LoopDone(inj.volume_injected, inj.volume)
       THEN LET h == [ihist EXCEPT !.exitVolume = inj.volume_injected]
                zero == IF Given(inj.pressure)
                        THEN setPressureResult(inj.pressure_channel, 0, status)
                        ELSE remoteSetTargetResult(inj.flowrate_sensor_channel, 0, status)
            IN  /\ UNCHANGED inj
                /\ IF Given(inj.stop_valve_channel)
                   THEN /\ InjSetValve(h, inj.stop_valve_channel, "set_valve_69")
                        /\ UNCHANGED last
                   ELSE IF Given(inj.pressure) \/ Given(inj.flow_rate)
                   THEN /\ last' = zero
                        /\ ipc' = "done"
                        /\ ihist' = [h EXCEPT
                                        !.log = Append(@, InjCall(zero.op, zero.ch, 0, zero.res)),
                                        !.res = zero.res]
                        /\ UNCHANGED muxVars
                   ELSE /\ ipc' = "done"
                        /\ ihist' = [h EXCEPT !.res = "ok"]
                        /\ UNCHANGED <<last, muxVars>>
       ELSE LET read == getFlowUniversalResult(inj.flowrate_sensor_channel, status)
                sleeptime == inj.loop_time - d
                h == [ihist EXCEPT
                         !.log = Append(@, InjCall("getFlowUniversal", read.ch, 0, read.res)),
                         !.turns = @ + 1]
                warned == (IF flow > inj.max_flow THEN <<"max_flow">> ELSE <<>>)
                            \o (IF sleeptime < 0 THEN <<"pollrate">> ELSE <<>>)
            IN  /\ last' = read
                /\ UNCHANGED muxVars
                /\ IF read.res # "ok"
                   THEN /\ ipc' = "done"
                        /\ ihist' = [h EXCEPT !.res = read.res]
                        /\ UNCHANGED inj
                   ELSE /\ inj' = [inj EXCEPT
                                      !.volume_injected = @ + Injected(flow, inj.loop_time)]
                        /\ ipc' = IF SleepResult(sleeptime) = "ok" THEN "loop" ELSE "done"
                        /\ ihist' = [h EXCEPT
                                        !.warnings = warned,
                                        !.overrun = @ \/ sleeptime < 0,
                                        !.positive = @ /\ flow > 0,
                                        !.res = IF SleepResult(sleeptime) = "ok"
                                                THEN "running"
                                                ELSE SleepResult(sleeptime)]
    /\ UNCHANGED <<insideRemote, confPIDs, runningPIDs, calib, Instr_ID, notInjVars>>

\* line 69: set_valve(stop_valve_channel) has returned or raised
inject_69 ==
    /\ ipc = "set_valve_69"
    /\ mpc = "idle"
    /\ ipc' = "done"
    /\ ihist' = [InjValveReturned EXCEPT !.res = mhist.res]
    /\ UNCHANGED <<inj, pelveVars, muxVars, notInjVars>>

NextInject ==
    \/ \E i \in InjectValves, v \in Volumes, sv \in StopValves, p \in InjPressures,
          f \in InjFlowRates, r \in PollRates, s \in Statuses :
          injectVolume(i, v, sv, p, f, r, s)
    \/ inject_55
    \/ \E f \in FlowReadings, s \in Statuses, d \in TickTimes : inject_56(f, s, d)
    \/ inject_69
    \/ \E s \in MuxStatuses : set_valve_104(s)
    \/ \E s \in MuxStatuses : set_valve_107(s)
    \/ \E s \in MuxStatuses : set_valve_115a(s)
    \/ \E s \in MuxStatuses : set_valve_115b(s)
    \/ \E s \in MuxStatuses : set_valve_116(s)
    \/ ValveStarts
    \/ ValveArrives

SpecInject == InitInject /\ [][NextInject]_vars

\* ===================================================================
\* The sweep routine (protocols.pressureSweep)
\* ===================================================================
\* pressureSweep sets a pressure and then calls acquireData, whose loop
\* runs as the turns of the acquisition model above.  `log` of shist holds
\* the calls of setPressure (with the pressure and the way the call ended)
\* and the finished runs of acquireData (with their rows), in order.
\* The reads of the acquisition runs succeed here; the driver may refuse
\* any setPressure.
SweepChannel == 1
SweepRate == 5                        \* acquisitionRate, in Hz
SweepTimes == {0, 1}                  \* staticTime, in seconds
RECURSIVE SeqsUpTo(_, _)
SeqsUpTo(S, n) ==
    IF n = 0 THEN {<<>>}
    ELSE LET shorter == SeqsUpTo(S, n - 1)
         IN  shorter \cup {Append(q, x) : q \in shorter, x \in S}
SetpointSeqs == SeqsUpTo(Pressures, MaxSetpoints)

SetEntry(pressure, res) == [op |-> "setPressure", val |-> pressure, res |-> res, rows |-> <<>>]
RunEntry(rows) == [op |-> "acquireData", val |-> 0, res |-> "ok", rows |-> rows]

\* a pressure session open with a calibration table, in direct mode or in
\* Remote-Mode; no sweep started
InitSweep ==
    /\ insideRemote \in BOOLEAN
    /\ calib = 1
    /\ Instr_ID = "valid"
    /\ confPIDs = [i \in Slots |-> NoPID]
    /\ runningPIDs = [i \in Slots |-> FALSE]
    /\ last = Rec("__init__", 0, 0, "ok", <<>>)
    /\ MUXInit
    /\ AcqInit
    /\ InjInit
    /\ SweepInit
    /\ AuxInit

\* variant of SweepEnds: the final zero-pressure set is made in any case
SweepEnds_AlwaysZero(endAtZero) == TRUE

\* line 108: if endAtZero
SweepEnds(endAtZero) == endAtZero

\* lines 108-110: after the loop.  `result` is bound by the first turn of
\* the loop only.
SweepReturn(sw, hist, status) ==
    LET zero == setPressureResult(sw.channel, 0, status)
        h == IF SweepEnds(sw.endAtZero)
             THEN [hist EXCEPT !.log = Append(@, SetEntry(0, zero.res))]
             ELSE hist
    IN  /\ spc' = "done"
        /\ swp' = sw
        /\ last' = IF SweepEnds(sw.endAtZero) THEN zero ELSE last
        /\ shist' = [h EXCEPT !.res =
                        IF SweepEnds(sw.endAtZero) /\ zero.res # "ok" THEN zero.res
                        ELSE IF sw.pressures = <<>> THEN "UnboundLocalError"
                        ELSE "ok"]

\* lines 100-103: the next setpoint is set and acquireData is called
SweepVisit(sw, hist, status) ==
    LET p == sw.pressures[sw.i + 1]
        set == setPressureResult(sw.channel, p, status)
    IN  /\ swp' = sw
        /\ last' = set
        /\ shist' = [hist EXCEPT !.log = Append(@, SetEntry(p, set.res)),
                                 !.res = IF set.res = "ok" THEN "running" ELSE set.res]
        /\ spc' = IF set.res = "ok" THEN "acquire" ELSE "done"
        /\ IF set.res = "ok"
           THEN /\ apc' = "loop"
                /\ acq' = StartAcq("acquireData", "none", sw.acquisitionRate, sw.staticTime)
                /\ data' = <<>>
                /\ ahist' = [NoRun EXCEPT !.res = "running"]
                /\ UNCHANGED files
           ELSE UNCHANGED acqVars

\* protocols.pressureSweep, up to its first call of acquireData (or its
\* return, for an empty list)
pressureSweep(pressures, staticTime, endAtZero, status) ==
    /\ spc = "idle"
    /\ apc = "idle"
    /\ LET sw == [IdleSweep EXCEPT !.channel = SweepChannel, !.pressures = pressures,
                                   !.acquisitionRate = SweepRate,
                                   !.staticTime = staticTime, !.endAtZero = endAtZero]
           h == [NoSweep EXCEPT !.res = "running"]
       IN  IF pressures = <<>>
           THEN SweepReturn(sw, h, status) /\ UNCHANGED acqVars
           ELSE SweepVisit(sw, h, status)
    /\ UNCHANGED <<insideRemote, confPIDs, runningPIDs, calib, Instr_ID, muxVars, injVars, auxVars>>

\* lines 103-110: acquireData has returned or raised; its rows are added to
\* result, and the next setpoint is visited or the routine ends
sweep_103(status) ==
    /\ spc = "acquire"
    /\ apc = "done"
    /\ IF ahist.res # "ok"
       THEN /\ spc' = "done"
            /\ shist' = [shist EXCEPT !.res = ahist.res]
            /\ UNCHANGED <<swp, last, acqVars>>
       ELSE LET sw == [swp EXCEPT !.i = @ + 1, !.result = @ \o data]
                h == [shist EXCEPT !.log = Append(@, RunEntry(data))]
            IN  IF sw.i < Len(sw.pressures)
                THEN SweepVisit(sw, h, status)
                ELSE SweepReturn(sw, h, status) /\ UNCHANGED acqVars
    /\ UNCHANGED <<insideRemote, confPIDs, runningPIDs, calib, Instr_ID, muxVars, injVars, auxVars>>

NextSweep ==
    \/ \E q \in SetpointSeqs, t \in SweepTimes, z \in BOOLEAN, s \in Statuses :
          pressureSweep(q, t, z, s)
    \/ \E s \in Statuses : sweep_103(s)
    \/ \E d \in TurnTimes : acquire_137({}, d)

SpecSweep == InitSweep /\ [][NextSweep]_vars

\* ===================================================================
\* The calibration files (src/pycrofluidics/elveob.py)
\* ===================================================================
\* performCallibration with the files it renames and writes.  One path is
\* followed: path=None and a str path both name it.  The date is read from
\* the clock of the machine, which does not run backwards.
\*
\* outcomes of Path.rename when the target exists: the target is replaced
\* (POSIX), or FileExistsError is raised (Windows)
RenameOutcomes == {"replaced", "FileExistsError"}

\* a session opened in direct mode or in Remote-Mode; the path is free or
\* holds a file written on the first date
InitCalib ==
    /\ insideRemote \in BOOLEAN
    /\ calib \in {NoCalib} \cup Tables
    /\ Instr_ID = "valid"
    /\ confPIDs = [i \in Slots |-> NoPID]
    /\ runningPIDs = [i \in Slots |-> FALSE]
    /\ last = Rec("__init__", 0, 0, "ok", <<>>)
    /\ MUXInit
    /\ AcqInit
    /\ InjInit
    /\ SweepInit
    /\ \E f \in {NoCal} \cup {CalFile(t, 1) : t \in Tables} :
          /\ calfs = [current |-> f, backup |-> NoBackups]
          /\ chist = [saved |-> IF f.exists THEN {f.table} ELSE {}, res |-> "none"]
    /\ today = 1
    /\ scope = NoScope
    /\ chk = NoCheck

\* lines 136-138: the suffix is the date of the old file's st_mtime
BackupName(oldCal, date) == oldCal.mtime

\* lines 134-139: an existing file is renamed; `outcome` is what
\* Path.rename does if the new name is taken
BackupOld(fs, date, outcome) ==
    LET oldCal == fs.current
        suffix == BackupName(oldCal, date)
    IN  IF ~oldCal.exists THEN [res |-> "ok", fs |-> fs]
        ELSE IF fs.backup[suffix].exists /\ outcome = "FileExistsError"
        THEN [res |-> "FileExistsError", fs |-> fs]
        ELSE [res |-> "ok",
              fs |-> [current |-> NoCal,
                      backup |-> [fs.backup EXCEPT ![suffix] = oldCal]]]

\* module function saveCalibration: open(location, "wt") and json.dump
saveCalibration(fs, calibrationData, date) ==
    [fs EXCEPT !.current = CalFile(calibrationData, date)]

\* Pelve.performCallibration, whole: the session part (lines 122-132) and,
\* when it raised nothing, the backup and the save (lines 134-141)
performCallibration_133(pathKind, newTable, status, date, outcome) ==
    /\ date >= today
    /\ today' = date
    /\ performCallibration(pathKind, newTable, status)
    /\ IF last'.res # "ok"
       THEN /\ chist' = [chist EXCEPT !.res = last'.res]
            /\ UNCHANGED calfs
       ELSE LET b == BackupOld(calfs, date, outcome)
            IN  IF b.res # "ok"
                THEN /\ chist' = [chist EXCEPT !.res = b.res]
                     /\ calfs' = b.fs
                ELSE /\ chist' = [saved |-> chist.saved \cup {newTable}, res |-> "ok"]
                     /\ calfs' = saveCalibration(b.fs, newTable, date)
    /\ UNCHANGED <<muxVars, acqVars, injVars, sweepVars, scope, chk>>

NextCalib ==
    \E k \in PathKinds, t \in Tables, s \in Statuses, d \in Days, o \in RenameOutcomes :
        performCallibration_133(k, t, s, d, o)

SpecCalib == InitCalib /\ [][NextCalib]_vars

\* ===================================================================
\* The status check (common.raiseEFerror)
\* ===================================================================
\* common.ERRORCODES, key by key
ErrorText ==
    [k \in ERRORCODES |->
        CASE k = 8000 -> "No Digital Sensor found"
          [] k = 8001 -> "No pressure sensor compatible with OB1 MK3"
          [] k = 8002 -> "No Digital pressure sensor compatible with OB1 MK3"
          [] k = 8003 -> "No Digital Flow sensor compatible with OB1 MK3"
          [] k = 8004 -> "No IPA config for this sensor"
          [] k = 8005 -> "Sensor not compatible with AF1"
          [] k = 8006 -> "No Instrument with selected ID"
          [] k = 8007 -> "ESI software seems to have connection with Device, close ESI before continuing in Python"
          [] OTHER -> "Unknown error from stopping remote mode"]

\* status codes: success, and both signs of every key, of the neighbours of
\* the keys and of a small code that is no key
ErrorInputs ==
    {0} \cup UNION {{c, -c} : c \in ERRORCODES \cup {1, 7999, 8008}}
\* the `action` argument: its default and texts the sessions pass
ActionTexts ==
    {"Elveflow command", "Initialize connection to OB1",
     "Closing connection to OB1", "Performing callibration",
     "Initialize connection to MUX distributor"}

\* str.format of an int: a minus sign for a negative number, then the
\* digits of its magnitude
FormatInt(n) == [minus |-> n < 0, digits |-> Abs(n)]

\* the parts a message is put together from, in order
Message2(action, error, text) ==
    <<[part |-> "action", text |-> action, number |-> FormatInt(0)],
      [part |-> "literal", text |-> " failed with errorcode ", number |-> FormatInt(0)],
      [part |-> "code", text |-> "", number |-> FormatInt(error)],
      [part |-> "literal", text |-> " : ", number |-> FormatInt(0)],
      [part |-> "reason", text |-> text, number |-> FormatInt(0)]>>
Message1(action, error) ==
    <<[part |-> "action", text |-> action, number |-> FormatInt(0)],
      [part |-> "literal", text |-> " failed with errorcode ", number |-> FormatInt(0)],
      [part |-> "code", text |-> "", number |-> FormatInt(error)],
      [part |-> "literal", text |-> " (not specified further)", number |-> FormatInt(0)]>>

\* variant of raiseEFerrorMessage: the code is looked up as it is
raiseEFerrorMessage_NoAbs(error, action) ==
    IF error = 0 THEN <<>>
    ELSE IF error \in ERRORCODES
    THEN Message2(action, error, ErrorText[error])
    ELSE Message1(action, error)

\* common.raiseEFerror: the message of the ConnectionError it raises
\* (<<>>: it returns None)
raiseEFerrorMessage(error, action) ==
    IF error = 0 THEN <<>>
    ELSE IF Abs(error) \in ERRORCODES
    THEN Message2(action, error, ErrorText[Abs(error)])
    ELSE Message1(action, error)

\* a call raiseEFerror(error, action)
raiseEFerrorCall(error, action) ==
    /\ chk' = [error |-> error, action |-> action, res |-> raiseEFerror(error),
               message |-> raiseEFerrorMessage(error, action)]
    /\ UNCHANGED <<pelveVars, muxVars, acqVars, injVars, sweepVars, calVars, scope>>

NextCheck ==
    \E e \in ErrorInputs, a \in ActionTexts : raiseEFerrorCall(e, a)

SpecCheck == Init /\ [][NextCheck]_vars

\* ===================================================================
\* Scoped use of a session (`with Pelve(...) as p`, `with MUXelve(...) as m`)
\* ===================================================================
\* The with statement calls __enter__, runs its block if __enter__ returned,
\* and then calls __exit__, whether the block raised or not.  If __enter__
\* raises, the exception leaves the with statement and __exit__ is not
\* called.  scope.pc: "out" (not started), "enter" (inside __enter__),
\* "block", "exit" (inside __exit__), "raised" (__enter__ raised).
ScopeKinds == {"pelve", "mux"}
ScopeFrame == UNCHANGED <<pelveVars, muxVars, acqVars, injVars, sweepVars, calVars, chk>>

\* the with statement starts: __enter__ is called
with_enter(who) ==
    /\ scope.pc = "out"
    /\ scope' = [who |-> who, pc |-> "enter", raised |-> FALSE]
    /\ ScopeFrame

\* Pelve.__enter__, line 447: self.open()
Pelve__enter__(status) ==
    /\ scope.who = "pelve"
    /\ scope.pc = "enter"
    /\ last.op = "__init__"
    /\ open(status)
    /\ PelveOnly

\* MUXelve.__enter__, line 154: self.open(auto_home = True, ...); the with
\* statement passes no argument, so auto_home has its default
MUX__enter__(status, homeStatus, homed) ==
    /\ scope.who = "mux"
    /\ scope.pc = "enter"
    /\ mhist.op = "__init__"
    /\ MUX_open(TRUE, status, homeStatus, homed)

\* open has returned or raised inside __enter__: __enter__ returns self
\* and the block starts, or the exception leaves the with statement
with_block ==
    /\ scope.pc = "enter"
    /\ \/ /\ scope.who = "pelve"
          /\ last.op = "open"
          /\ scope' = [scope EXCEPT !.pc = IF last.res = "ok" THEN "block" ELSE "raised"]
       \/ /\ scope.who = "mux"
          /\ mhist.op = "open"
          /\ mpc = "idle"
          /\ scope' = [scope EXCEPT !.pc = IF mhist.res = "ok" THEN "block" ELSE "raised"]
    /\ ScopeFrame

\* calls made by the block
BlockPelve(status) ==
    /\ scope.who = "pelve"
    /\ scope.pc = "block"
    /\ \/ startRemote(status)
       \/ \E p \in Pressures : setPressure(MinChannel, p, status)
    /\ PelveOnly
BlockMux(valve_index, blocking) ==
    /\ scope.who = "mux"
    /\ scope.pc = "block"
    /\ set_valve(valve_index, blocking)

\* the block ends, by running to its end or by raising, and __exit__ is
\* called
with_exit(raised) ==
    /\ scope.pc = "block"
    /\ mpc = "idle"
    /\ scope' = [scope EXCEPT !.pc = "exit", !.raised = raised]
    /\ ScopeFrame

\* Pelve.__exit__, line 452: self.close()
Pelve__exit__(stopStatus, status, stillValid) ==
    /\ scope.who = "pelve"
    /\ scope.pc = "exit"
    /\ last.op # "close"
    /\ close(stopStatus, status, stillValid)
    /\ PelveOnly

\* MUXelve.__exit__, line 159: self.close()
MUX__exit__(status, stillValid) ==
    /\ scope.who = "mux"
    /\ scope.pc = "exit"
    /\ mhist.op # "close"
    /\ MUX_close(status, stillValid)

NextScope ==
    \/ \E w \in ScopeKinds : with_enter(w)
    \/ \E s \in Statuses : Pelve__enter__(s)
    \/ \E s, s2 \in Statuses, p \in ValveRest : MUX__enter__(s, s2, p)
    \/ with_block
    \/ \E s \in HandleStatuses : BlockPelve(s)
    \/ \E i \in ValveInputs, b \in BOOLEAN : BlockMux(i, b)
    \/ \E r \in BOOLEAN : with_exit(r)
    \/ \E s1, s2 \in HandleStatuses, v \in BOOLEAN : Pelve__exit__(s1, s2, v)
    \/ \E s \in MuxStatuses, v \in BOOLEAN : MUX__exit__(s, v)
    \/ \E s \in MuxStatuses : set_valve_104(s)
    \/ \E s \in MuxStatuses : set_valve_107(s)
    \/ \E s \in MuxStatuses : set_valve_115a(s)
    \/ \E s \in MuxStatuses : set_valve_115b(s)
    \/ \E s \in MuxStatuses : set_valve_116(s)
    \/ \E d \in PollTimes, s \in MuxStatuses : wait_136(d, s)
    \/ ValveStarts
    \/ ValveArrives

SpecScope == Init /\ [][NextScope]_vars

\* ===================================================================
\* Properties of the pressure session
\* ===================================================================
DirectOps ==
    {"setPressure", "getPressure", "getSensorData", "addSensor",
     "performCallibration", "setPressureBulk"}
RemoteAccessors == {"remoteGetData", "remoteSetTarget"}
PIDControlOps ==
    {"remotePausePID", "remoteStartPID", "remoteResetPID", "remoteChangePID"}

\* the session state is what it was when the last call started
StateUnchanged == Pre = last.pre
NoDriverCall == last.calls = <<>>
AllPIDsAbsent == \A i \in Slots : confPIDs[i] = NoPID
NoPIDRunning == \A i \in Slots : runningPIDs[i] = FALSE
\* the PID Configuration of channel ch, in the state st, is absent
ConfAbsent(st, ch) == ~IndexOK(SlotIndex(ch)) \/ ~st.confPIDs[SlotIndex(ch)].isDict
DriverCalls(fn) == {i \in DOMAIN last.calls : last.calls[i].fn = fn}
\* the last call was made on an open session (open succeeded, no close since)
OnOpenSession == last.pre.Instr_ID = "valid"

\* C1: a direct operation called in Remote-Mode fails with InvalidState
\* and makes no driver call, and remoteGetData / remoteSetTarget on a valid
\* channel do not fail with InvalidState; outside Remote-Mode remoteGetData,
\* remoteSetTarget and addPID fail with InvalidState without a driver call
\* and the direct operations do not fail with InvalidState.
C1_RemoteExclusion ==
    /\ (last.pre.insideRemote /\ last.op \in DirectOps)
          => (last.res = "InvalidState" /\ NoDriverCall)
    /\ (last.pre.insideRemote /\ last.op \in RemoteAccessors /\ _channelCheck(last.ch))
          => last.res # "InvalidState"
    /\ (~last.pre.insideRemote /\ last.op \in RemoteAccessors \cup {"remoteAddPID"})
          => (last.res = "InvalidState" /\ NoDriverCall)
    /\ (~last.pre.insideRemote /\ last.op \in DirectOps)
          => last.res # "InvalidState"

\* a direct operation has just been refused in Remote-Mode
C1_Witness ==
    /\ OnOpenSession
    /\ last.pre.insideRemote
    /\ last.op = "setPressure"
    /\ _channelCheck(last.ch)
    /\ last.res = "InvalidState"

\* C2: when stopRemote succeeds, Remote-Mode is false, all PID
\* Configuration slots are absent and no PID Running flag is set.
C2_StopRemoteClears ==
    (last.op = "stopRemote" /\ last.res = "ok")
        => (~insideRemote /\ AllPIDsAbsent /\ NoPIDRunning)

\* stopRemote has succeeded on a session with a configured, running PID
C2_Witness ==
    /\ OnOpenSession
    /\ last.op = "stopRemote"
    /\ last.res = "ok"
    /\ \E i \in Slots : last.pre.confPIDs[i].isDict /\ last.pre.runningPIDs[i]

\* C3: loadCallibration called in Remote-Mode fails with InvalidState and
\* leaves the Calibration Table unchanged.
C3_LoadRefusedInRemote ==
    (OnOpenSession /\ last.op = "loadCallibration" /\ last.pre.insideRemote)
        => (last.res = "InvalidState" /\ calib = last.pre.calib)

\* C4: pausePID, startPID, resetPID and changePID on a valid channel,
\* called outside Remote-Mode, fail with InvalidState without a driver call.
C4_PIDControlRefusedInDirect ==
    (/\ OnOpenSession
     /\ last.op \in PIDControlOps
     /\ ~last.pre.insideRemote
     /\ _channelCheck(last.ch))
        => (last.res = "InvalidState" /\ NoDriverCall)

\* C5: pausePID, startPID, resetPID and changePID on a channel 1..4 whose
\* PID Configuration is absent fail with ConfigError, make no driver call
\* and leave the session state unchanged.
C5_AbsentPIDRefused ==
    (/\ OnOpenSession
     /\ last.op \in PIDControlOps
     /\ _channelCheck(last.ch)
     /\ ConfAbsent(last.pre, last.ch))
        => (last.res = "ConfigError" /\ NoDriverCall /\ StateUnchanged)

\* C6: in Remote-Mode an addPID on channels 1..4 whose driver call
\* succeeds returns without error and leaves the pressure channel's
\* Configuration at the submitted gains and its Running flag at `run`.
C6_AddPIDStores ==
    (/\ OnOpenSession
     /\ last.op = "remoteAddPID"
     /\ last.pre.insideRemote
     /\ _channelCheck(last.ch) /\ _channelCheck(last.ch2)
     /\ last.calls # <<>>
     /\ last.calls[1].status = 0)
        => (/\ last.res = "ok"
            /\ ~ConfAbsent(Pre, last.ch)
            /\ confPIDs[SlotIndex(last.ch)] = PIDdict(last.calls[1].a, last.calls[1].b)
            /\ runningPIDs[SlotIndex(last.ch)] = IntToBool(last.calls[1].flag))

\* C7: a successful pausePID / startPID sets the channel's Running flag to
\* false / true, a successful resetPID submits the stored gains with the
\* reset flag and leaves the flag alone; none of them changes a
\* Configuration, another channel's flag or Remote-Mode.
C7_StartStopReset ==
    LET c == SlotIndex(last.ch) IN
    (last.op \in {"remotePausePID", "remoteStartPID", "remoteResetPID"} /\ last.res = "ok")
        => (/\ last.pre.confPIDs[c].isDict
            /\ confPIDs = last.pre.confPIDs
            /\ insideRemote = last.pre.insideRemote
            /\ \A i \in Slots \ {c} : runningPIDs[i] = last.pre.runningPIDs[i]
            /\ last.op = "remotePausePID" => runningPIDs[c] = FALSE
            /\ last.op = "remoteStartPID" => runningPIDs[c] = TRUE
            /\ last.op = "remoteResetPID" =>
                  /\ runningPIDs = last.pre.runningPIDs
                  /\ last.calls = <<Call("PID_Set_Params_Remote", last.ch, 0,
                                         last.pre.confPIDs[c].P, last.pre.confPIDs[c].I,
                                         1, 0)>>)

\* a running PID has just been paused while another channel is configured
C7_Witness ==
    /\ OnOpenSession
    /\ last.op = "remotePausePID"
    /\ last.res = "ok"
    /\ last.pre.runningPIDs[SlotIndex(last.ch)]
    /\ \E i \in Slots \ {SlotIndex(last.ch)} : confPIDs[i].isDict /\ runningPIDs[i]

\* C8: startRemote in Remote-Mode and stopRemote outside it fail with
\* InvalidState, make no driver call and change nothing; startRemote turns
\* Remote-Mode on only when its driver call returned status 0.
C8_StartStopGuards ==
    /\ (last.op = "startRemote" /\ last.pre.insideRemote)
          => (last.res = "InvalidState" /\ NoDriverCall /\ StateUnchanged)
    /\ (last.op = "stopRemote" /\ ~last.pre.insideRemote)
          => (last.res = "InvalidState" /\ NoDriverCall /\ StateUnchanged)
    /\ (last.op = "startRemote" /\ ~last.pre.insideRemote /\ insideRemote)
          => (/\ Len(last.calls) = 1
              /\ last.calls[1].fn = "OB1_Start_Remote_Measurement"
              /\ last.calls[1].status = 0)

\* startRemote has just been refused on a session with a configured PID
C8_Witness ==
    /\ OnOpenSession
    /\ last.op = "startRemote"
    /\ last.pre.insideRemote
    /\ last.res = "InvalidState"
    /\ \E i \in Slots : confPIDs[i].isDict

\* C9: close on an opened session issues exactly one destroy call, as its
\* final driver call, and raises DeviceError exactly when the destroy
\* status is non-zero; in Remote-Mode the stopRemote call comes first and
\* its failure is not raised.
C9_CloseDestroys ==
    (last.op = "close" /\ last.pre.Instr_ID # "unset")
        => (/\ Cardinality(DriverCalls("OB1_Destructor")) = 1
            /\ last.calls[Len(last.calls)].fn = "OB1_Destructor"
            /\ last.res = "DeviceError" <=> last.calls[Len(last.calls)].status # 0
            /\ last.res \in {"ok", "DeviceError"}
            /\ IF last.pre.insideRemote
               THEN Len(last.calls) = 2 /\ last.calls[1].fn = "OB1_Stop_Remote_Measurement"
               ELSE Len(last.calls) = 1)

\* close in Remote-Mode: the stopRemote attempt failed, the destroy call
\* went out and succeeded
C9_Witness ==
    /\ OnOpenSession
    /\ last.op = "close"
    /\ last.pre.insideRemote
    /\ Len(last.calls) = 2
    /\ last.calls[1].status # 0
    /\ last.calls[2].status = 0
    /\ last.res = "ok"

\* C10: a successful open of a closed session leaves Remote-Mode false
\* and all PID Configuration slots absent.
C10_OpenIsDirect ==
    (last.op = "open" /\ last.res = "ok" /\ last.pre.Instr_ID \in {"unset", "destroyed"})
        => (~insideRemote /\ AllPIDsAbsent)

\* C11: every driver call other than the initialization is made while the
\* session's handle is valid; a call of a method before open has succeeded
\* or after close has destroyed the handle makes no driver call.
C11_DriverCallsCarryValidHandle ==
    \A i \in DOMAIN last.calls :
        last.calls[i].fn # "OB1_Initialization" => last.pre.Instr_ID = "valid"

ChannelOpsDirect == {"setPressure", "getPressure", "getSensorData", "addSensor"}
ChannelOpsRemote == RemoteAccessors \cup {"remoteAddPID"} \cup PIDControlOps
ChannelOpsBoth == {"getPressureUniversal", "getFlowUniversal"}

\* the last call was a channel-taking accessor that is legal in the mode
\* the session was in
LegalChannelOp ==
    \/ last.op \in ChannelOpsDirect /\ ~last.pre.insideRemote
    \/ last.op \in ChannelOpsRemote /\ last.pre.insideRemote
    \/ last.op \in ChannelOpsBoth

\* C12: a channel-taking accessor that is legal in the current mode, given
\* an integer channel outside 1..4 (for addPID: in either channel
\* argument), fails with ValidationError, makes no driver call and leaves
\* the session state unchanged.
C12_ChannelValidated ==
    (/\ LegalChannelOp
     /\ \/ ~(last.ch \in MinChannel..MaxChannel)
        \/ last.op = "remoteAddPID" /\ ~(last.ch2 \in MinChannel..MaxChannel))
        => (last.res = "ValidationError" /\ NoDriverCall /\ StateUnchanged)

\* in Remote-Mode, with a PID configured, addPID has just been refused for
\* its sensor channel alone
C12_Witness ==
    /\ OnOpenSession
    /\ last.pre.insideRemote
    /\ last.op = "remoteAddPID"
    /\ last.ch \in MinChannel..MaxChannel
    /\ ~(last.ch2 \in MinChannel..MaxChannel)
    /\ last.res = "ValidationError"
    /\ \E i \in Slots : confPIDs[i].isDict

\* ===================================================================
\* Properties of the valve session
\* ===================================================================
MoveEvents == {i \in DOMAIN mhist.log : mhist.log[i].ev = "MUX_DRI_Set_Valve"}
DriverEvents == {i \in DOMAIN mhist.log : mhist.log[i].ev \notin {"wait", "return_105"}}

\* C13: set_valve(index) and home(start_channel = index) with an index
\* outside 1..12, on an open session, fail with ValidationError and no
\* driver call is made: no position query, no homing command, no move.
C13_ValveIndexValidated ==
    (/\ mhist.open
     /\ mhist.op \in {"set_valve", "home"}
     /\ ~(mhist.arg \in 1..MaxValve))
        => (/\ mhist.res = "ValidationError"
            /\ DriverEvents = {}
            /\ ~mhist.queried)

\* C14: a set_valve(n) whose first query finds the valve at n issues no
\* move command and returns n; so of two set_valve(n) in a row, the second
\* one issues no move when the valve reports n after the first.
C14_NoMoveWhenThere ==
    (mhist.op = "set_valve" /\ mhist.first = mhist.arg)
        => (/\ mpc = "idle"
            /\ mhist.res = "ok"
            /\ mhist.ret = mhist.arg
            /\ MoveEvents = {})

\* the second of two set_valve(n) in a row has returned without a move
C14_Witness ==
    /\ mhist.open
    /\ mhist.op = "set_valve"
    /\ mhist.again
    /\ mhist.first = mhist.arg
    /\ mhist.res = "ok"

\* C15: when set_valve has issued its move and its position queries went
\* through, it fails with the positioning error if and only if the position
\* queried after the move is neither the target nor the busy sentinel 0; it
\* never fails on a valve reported busy or at the target.
C15_PositionErrorIff ==
    (/\ mhist.open
     /\ mhist.op = "set_valve"
     /\ mhist.moved
     /\ mhist.res \in {"ok", "DeviceError(position)"})
        => (mhist.res = "DeviceError(position)"
              <=> \A i \in DOMAIN mhist.after : mhist.after[i] \notin {mhist.arg, Busy})

\* C16, safety part: the wait loop goes on only while no poll has returned
\* a position within the timeout; it returns True only after such a poll
\* and raises the timeout error only without one, the timeout having passed.
C16_WaitInv ==
    /\ mpc = "wait_136" => ~mhist.seen
    /\ (mhist.log # <<>> /\ mhist.log[Len(mhist.log)].ev = "wait")
          => (mhist.seen /\ mhist.welapsed <= mhist.wtimeout)
    /\ mhist.res = "DeviceError(timeout)"
          => (~mhist.seen /\ mhist.welapsed > mhist.wtimeout)
    /\ mhist.seen => mhist.res # "DeviceError(timeout)"

HomeLog == IF mhist.op = "open" THEN Tail(mhist.log) ELSE mhist.log
HomeStartChannel == IF mhist.op = "open" THEN 1 ELSE mhist.arg
\* home(), or open(auto_home = True), has returned without error
HomeReturned ==
    /\ mhist.res = "ok"
    /\ mhist.op = "home" \/ (mhist.op = "open" /\ mhist.arg = 1)

\* C17 as stated: a successful home (also the one made by open with
\* auto_home) issues the homing command, waits with timeout 10, and then
\* issues the moves toward 1, 12 and start_channel, each followed by its
\* wait; the valve is then at start_channel or busy.
C17_HomeSequence ==
    HomeReturned
        => (/\ HomeLog = <<Ev("MUX_DRI_Send_Command", 0, 0), Ev("wait", HomeTimeout, 0),
                           Ev("MUX_DRI_Set_Valve", 1, 0), Ev("wait", DefaultTimeout, 0),
                           Ev("MUX_DRI_Set_Valve", MaxValve, 0), Ev("wait", DefaultTimeout, 0),
                           Ev("MUX_DRI_Set_Valve", HomeStartChannel, 0),
                           Ev("wait", DefaultTimeout, 0)>>
            /\ valve.rep \in {HomeStartChannel, Busy})

\* L is the log of blocking set_valve calls to the targets T, in order:
\* each either returned at line 105 or issued its move and waited for it
RECURSIVE BlockingMoves(_, _)
BlockingMoves(L, T) ==
    IF T = <<>> THEN L = <<>>
    ELSE IF L = <<>> THEN FALSE
    ELSE IF L[1] = Ev("return_105", Head(T), 0)
    THEN BlockingMoves(Tail(L), Tail(T))
    ELSE /\ Len(L) >= 2
         /\ L[1] = Ev("MUX_DRI_Set_Valve", Head(T), 0)
         /\ L[2] = Ev("wait", DefaultTimeout, 0)
         /\ BlockingMoves(SubSeq(L, 3, Len(L)), Tail(T))

\* C17, amended: the moves toward 1, 12 and start_channel are issued in
\* that order, each waited for, except that no move is issued toward a
\* position the valve already reports when its turn comes.
C17_HomeSequenceAmended ==
    HomeReturned
        => (/\ Len(HomeLog) >= 2
            /\ HomeLog[1] = Ev("MUX_DRI_Send_Command", 0, 0)
            /\ HomeLog[2] = Ev("wait", HomeTimeout, 0)
            /\ BlockingMoves(SubSeq(HomeLog, 3, Len(HomeLog)),
                             <<1, MaxValve, HomeStartChannel>>)
            /\ valve.rep \in {HomeStartChannel, Busy})

\* home(2) has returned: homing left the valve at 1, so no move toward 1
\* was issued, and the moves toward 12 and 2 were
C17_Witness ==
    /\ mhist.open
    /\ mhist.op = "home"
    /\ mhist.arg = 2
    /\ mhist.res = "ok"
    /\ Len(mhist.log) = 7
    /\ mhist.log[3] = Ev("return_105", 1, 0)

\* ===================================================================
\* Properties of the acquisition routines
\* ===================================================================
\* the file at the savePath of the run of acquireDataCont, and the lines
\* written to it so far
savefile == files[acq.savePath]
Written == savefile.lines \o savefile.pending

\* the rows a run has produced so far: the list `data` of acquireData, the
\* lines after the header in the file of acquireDataCont
Rows ==
    IF acq.fn = "acquireData" THEN data
    ELSE IF acq.fn = "acquireDataCont" /\ Written # <<>> /\ Head(Written) = Header
    THEN Tail(Written)
    ELSE <<>>

\* row t holds, field by field, NaN where the read failed and the value
\* read in turn t elsewhere; one row per completed turn
RowsAsRead ==
    /\ Len(Rows) = ahist.ticks
    /\ \A t \in 1..Len(Rows), i \in PressureChannels :
          /\ Rows[t].p[i] = IF <<t, i>> \in ahist.faults THEN NaN
                            ELSE PressureSignal(i, t)
          /\ Rows[t].s[i] = IF <<t, MaxChannel + i>> \in ahist.faults THEN NaN
                            ELSE SensorSignal(i, t)

NoMissingValue ==
    \A t \in 1..Len(Rows), i \in PressureChannels :
        Rows[t].p[i] # NaN /\ Rows[t].s[i] # NaN

SessionReady == ~insideRemote /\ HasHandleAttr /\ HasCalibAttr

\* C18: in acquireData every failure an accessor raises during a turn is
\* caught: the run never ends with an error, row t has NaN in exactly the
\* fields whose read failed and the values read everywhere else, and a run
\* without failed reads has no NaN.
C18_EveryReadFailureCaught ==
    acq.fn = "acquireData" =>
        /\ ahist.res \in {"running", "ok"}
        /\ RowsAsRead
        /\ (ahist.faults = {} => NoMissingValue)

\* C18, amended: a failure reported by the driver (non-zero status, raised
\* as ConnectionError) is caught, with the rows as stated, and on a ready
\* session the run never ends with an error; the accessor's other failures
\* (Remote-Mode, missing calibration table or handle) end the run with
\* that error in the first read of the first turn.
C18_DriverFailuresCaught ==
    acq.fn = "acquireData" =>
        /\ ahist.res # "DeviceError"
        /\ RowsAsRead
        /\ (ahist.faults = {} => NoMissingValue)
        /\ (SessionReady => ahist.res \in {"running", "ok"})
        /\ (~SessionReady /\ apc = "done" =>
               /\ ahist.res = (IF insideRemote THEN "InvalidState" ELSE "AttributeError")
               /\ ahist.reads = 1
               /\ data = <<>>)

\* a finished run in which the read of sensor channel 2 failed once, in a
\* turn that was neither the first nor the last
C18_Witness ==
    /\ acq.fn = "acquireData"
    /\ ahist.res = "ok"
    /\ \E t \in 2..(ahist.ticks - 1) :
          /\ ahist.faults = {<<t, MaxChannel + 2>>}
          /\ data[t].s[2] = NaN
          /\ data[t].s[1] = SensorSignal(1, t)


\* ------------------------------------------------------------------ C19
\* the state part: a run of acquireData that returns has broken out at a
\* turn that started after measurementEnd, the turn before it (the last one
\* with a row) started no later than measurementEnd, every completed turn
\* has appended one row, the elapsed times of consecutive rows do not
\* decrease, and at 10 Hz for 1 s, with at most MaxLate clock ticks spent
\* reading, the run yields 9 to 11 rows
C19_StopInv ==
    acq.fn = "acquireData" =>
        /\ (ahist.res \in {"running", "ok"} => Len(data) = ahist.ticks)
        /\ (ahist.ticks >= 1 => ahist.rowStart <= acq.measurementEnd)
        /\ (ahist.ticks >= 2 => ahist.prevRowTime <= ahist.rowTime)
        /\ (ahist.res = "ok" =>
               /\ ahist.breakStart > acq.measurementEnd
               /\ ahist.ticks >= 1
               /\ (acq.breakTime = TicksPerSecond \div 10
                     /\ acq.measurementEnd = TicksPerSecond
                   => ahist.ticks \in 9..11))

\* the step part: inside the loop `data` only grows, by one row at a time
C19_AppendOnly ==
    acq.fn = "acquireData" /\ apc = "loop" =>
        \/ data' = data
        \/ /\ Len(data') = Len(data) + 1
           /\ SubSeq(data', 1, Len(data)) = data

\* C19: acquireData terminates for every positive rate and non-negative
\* duration: the loop is left, at the first turn that starts strictly after
\* measurementStart + measureTime and at no earlier turn, each earlier turn
\* appending exactly one row with non-decreasing elapsed time; at 10 Hz for
\* 1 s with negligible read time there are 9 to 11 rows.
C19_AcquireTerminates ==
    /\ []C19_StopInv
    /\ [][C19_AppendOnly]_vars
    /\ ((apc = "loop") ~> (apc = "done"))

\* a run at 10 Hz for 1 s that returned with 11 rows
C19_Witness ==
    /\ acq.fn = "acquireData"
    /\ ahist.res = "ok"
    /\ acq.breakTime = TicksPerSecond \div 10
    /\ acq.measurementEnd = TicksPerSecond
    /\ Len(data) = 11
    /\ ahist.breakStart = acq.measurementEnd + acq.breakTime

LastDelta == ahist.rowTime - 2 * ahist.rowStart

\* C29: in acquireData and acquireDataCont, after a turn that took less
\* than breakTime the loop sleeps the remainder, so the next turn starts
\* one breakTime after this one started; after a turn that took longer the
\* loop does not sleep at all.
C29_SleepsRemainder ==
    apc = "loop" /\ ahist.ticks >= 1 =>
        /\ (LastDelta < acq.breakTime => acq.now = ahist.rowStart + acq.breakTime)
        /\ (LastDelta > acq.breakTime => acq.now = ahist.rowStart + LastDelta)

\* ===================================================================
\* Properties of the injection routine
\* ===================================================================
SetOps == {"setPressure", "remoteSetTarget"}
InjLogIndex == 1..Len(ihist.log)

\* the entries of the log up to the call of set_valve(inject_valve_channel)
InjectPrefix == IF Given(inj.pressure) \/ Given(inj.flow_rate) THEN 2 ELSE 1

\* the calls made after that one, other than the flow reads of the loop
StopEntries ==
    {k \in InjLogIndex : k > InjectPrefix /\ ihist.log[k].op # "getFlowUniversal"}

\* C21: injectVolume with both pressure and flow_rate given ends with
\* ConfigError before any call on the pressure or the valve session; with
\* exactly one of them given, setPressure (for pressure) or remoteSetTarget
\* (for flow_rate) is the first call and has returned before set_valve is
\* called; with neither given, no pressure and no target is ever set.
\* "Given" is Python's truth value: 0 counts as the default False.
C21_InjectArguments ==
    ipc # "idle" =>
        /\ (Given(inj.pressure) /\ Given(inj.flow_rate) =>
               /\ ipc = "done"
               /\ ihist.res = "ConfigError"
               /\ ihist.log = <<>>
               /\ mhist.op = "open"
               /\ last.op = "__init__")
        /\ (Given(inj.pressure) /\ ~Given(inj.flow_rate) =>
               /\ ihist.log # <<>>
               /\ ihist.log[1].op = "setPressure"
               /\ ihist.log[1].ch = inj.pressure_channel
               /\ ihist.log[1].val = inj.pressure)
        /\ (Given(inj.flow_rate) /\ ~Given(inj.pressure) =>
               /\ ihist.log # <<>>
               /\ ihist.log[1].op = "remoteSetTarget"
               /\ ihist.log[1].ch = inj.flowrate_sensor_channel
               /\ ihist.log[1].val = inj.flow_rate)
        /\ (Given(inj.pressure) \/ Given(inj.flow_rate) =>
               \A k \in InjLogIndex :
                   ihist.log[k].op \notin SetOps => k > 1 /\ ihist.log[1].res = "ok")
        /\ (~Given(inj.pressure) /\ ~Given(inj.flow_rate) =>
               \A k \in InjLogIndex : ihist.log[k].op \notin SetOps)

\* the pressure was set, and then the move to the inject valve was sent
C21_Witness ==
    /\ Given(inj.pressure)
    /\ Len(ihist.log) >= 2
    /\ ihist.log[1] = InjCall("setPressure", inj.pressure_channel, inj.pressure, "ok")
    /\ ihist.log[2].op = "set_valve"
    /\ ihist.log[2].ch = inj.inject_valve_channel
    /\ mhist.moved

\* every flow read of the run so far returned a positive reading
ReadsPositive ==
    /\ ihist.positive
    /\ \A k \in InjLogIndex :
          ihist.log[k].op = "getFlowUniversal" => ihist.log[k].res = "ok"

\* C22: with positive flow readings and a positive target volume
\* injectVolume leaves its loop only at the first turn at which the
\* accumulated volume has reached the target, and then calls
\* set_valve(stop_valve_channel) when one was given.
C22_LoopExitsAtTarget ==
    ipc = "done" /\ ihist.turns >= 1 /\ ReadsPositive =>
        /\ ihist.exitVolume >= inj.volume
        /\ (Given(inj.stop_valve_channel) =>
               ihist.log[Len(ihist.log)].op = "set_valve")

\* C23: when the loop has completed, if stop_valve_channel was given
\* exactly one call set_valve(stop_valve_channel) is made and no pressure
\* or target is zeroed; otherwise setPressure(pressure_channel, 0) is called
\* if pressure was given and remoteSetTarget(flowrate_sensor_channel, 0) if
\* flow_rate was; none of these is called before the accumulated volume has
\* reached the target.
C23_StopActions ==
    /\ (StopEntries # {} => ihist.exitVolume >= inj.volume)
    /\ (ihist.exitVolume >= 0 /\ ipc # "loop" =>
           LET final == ihist.log[Len(ihist.log)] IN
           /\ ihist.exitVolume >= inj.volume
           /\ (Given(inj.stop_valve_channel) =>
                  /\ StopEntries = {Len(ihist.log)}
                  /\ final.op = "set_valve"
                  /\ final.ch = inj.stop_valve_channel)
           /\ (~Given(inj.stop_valve_channel) /\ Given(inj.pressure) =>
                  /\ StopEntries = {Len(ihist.log)}
                  /\ final.op = "setPressure"
                  /\ final.ch = inj.pressure_channel
                  /\ final.val = 0)
           /\ (~Given(inj.stop_valve_channel) /\ ~Given(inj.pressure)
                 /\ Given(inj.flow_rate) =>
                  /\ StopEntries = {Len(ihist.log)}
                  /\ final.op = "remoteSetTarget"
                  /\ final.ch = inj.flowrate_sensor_channel
                  /\ final.val = 0)
           /\ (~Given(inj.stop_valve_channel) /\ ~Given(inj.pressure)
                 /\ ~Given(inj.flow_rate) => StopEntries = {}))

\* an injection of several turns that ended with the move to the stop valve
C23_Witness ==
    /\ ipc = "done"
    /\ ihist.res = "ok"
    /\ ihist.turns >= 2
    /\ inj.stop_valve_channel = MaxValve
    /\ ihist.log[Len(ihist.log)] = InjCall("set_valve", MaxValve, 0, "ok")
    /\ mhist.log = <<Ev("MUX_DRI_Set_Valve", MaxValve, 0)>>

\* C30: a turn of the loop of injectVolume that takes longer than
\* 1/pollrate only emits a warning: the routine does not raise because of
\* it, and a reading above max_flow likewise only emits a warning.
C30_OverrunOnlyWarns ==
    ihist.overrun /\ ReadsPositive =>
        /\ ihist.res # "ValueError(sleep)"
        /\ (ipc = "done" => ihist.exitVolume >= inj.volume)


\* ===================================================================
\* Properties of the sweep routine
\* ===================================================================
\* the rows of the acquisition runs in the first k entries of a log, in
\* order
RECURSIVE RowsOfRuns(_, _)
RowsOfRuns(log, k) ==
    IF k = 0 THEN <<>> ELSE RowsOfRuns(log, k - 1) \o log[k].rows

\* C24: for a non-empty list of setpoints the calls pressureSweep makes are
\* setPressure(channel, p) for the setpoints p in the given order, each
\* followed by exactly one run of acquireData (of staticTime at
\* acquisitionRate) before the next set, and then one setPressure(channel,
\* 0) if and only if endAtZero, with no run after it; the result is the
\* concatenation of the rows of those runs in visit order.
C24_SweepOrder ==
    spc # "idle" /\ swp.pressures # <<>> =>
        LET n == Len(swp.pressures)
            log == shist.log
        IN  /\ Len(log) <= 2 * n + 1
            /\ \A j \in 1..Len(log) :
                  IF j = 2 * n + 1
                  THEN /\ swp.endAtZero
                       /\ log[j].op = "setPressure"
                       /\ log[j].val = 0
                  ELSE IF j % 2 = 1
                  THEN /\ log[j].op = "setPressure"
                       /\ log[j].val = swp.pressures[(j + 1) \div 2]
                  ELSE /\ log[j].op = "acquireData"
                       /\ log[j - 1].res = "ok"
            /\ swp.result = RowsOfRuns(log, Len(log))
            /\ (acq.fn # "none" =>
                   /\ acq.fn = "acquireData"
                   /\ acq.breakTime = TicksPerSecond \div swp.acquisitionRate
                   /\ acq.measurementEnd = swp.staticTime * TicksPerSecond)
            /\ (spc = "acquire" => Len(log) % 2 = 1 /\ Len(log) < 2 * n)
            /\ (spc = "done" /\ Len(log) >= 2 * n =>
                   Len(log) = 2 * n + (IF swp.endAtZero THEN 1 ELSE 0))
            /\ (spc = "done" /\ shist.res = "ok" => Len(log) >= 2 * n)

\* a sweep over two setpoints that ended at zero, whose two runs gave
\* different numbers of rows
C24_Witness ==
    /\ spc = "done"
    /\ shist.res = "ok"
    /\ swp.pressures = <<1, 0>>
    /\ swp.endAtZero
    /\ Len(shist.log) = 5
    /\ shist.log[1] = SetEntry(1, "ok")
    /\ shist.log[5] = SetEntry(0, "ok")
    /\ Len(shist.log[2].rows) > Len(shist.log[4].rows)
    /\ swp.result = shist.log[2].rows \o shist.log[4].rows


\* ===================================================================
\* Properties of the calibration file handling
\* ===================================================================
\* C25: loadCallibration fails with ConfigError whenever the file its path
\* resolves to does not exist, for a path given as a str and for path=None
\* alike, and then leaves the table alone; a file of CalibLength entries
\* replaces the table by the file's values; a file of another length fails
\* with ValidationError and leaves the table alone.
C25_LoadOutcome ==
    last.op = "loadCallibration" /\ last.path \in {"None", "str"} =>
        IF ~last.file.exists
        THEN last.res = "ConfigError" /\ calib = last.pre.calib
        ELSE IF last.file.len = CalibLength
        THEN last.res = "ok" /\ calib = last.file.table
        ELSE last.res = "ValidationError" /\ calib = last.pre.calib


\* the calibration tables stored in some file of the path
StoredTables ==
    {f.table : f \in {g \in {calfs.current} \cup {calfs.backup[d] : d \in Days} :
                         g.exists}}

\* C26: every calibration table that was ever persisted at the path is
\* stored in some file, the current one or a backup <path>.<date>, after
\* any sequence of performCallibration calls, several on one date included.
C26_NoTableLost == chist.saved \subseteq StoredTables


\* ===================================================================
\* Properties of the status check
\* ===================================================================
Checked == chk.res # "none"
Parts(kind) == {i \in 1..Len(chk.message) : chk.message[i].part = kind}
Magnitude(code) == IF code < 0 THEN -code ELSE code
KnownCode(code) == Magnitude(code) \in ERRORCODES

\* C28: raiseEFerror(0, action) returns and changes nothing; for every
\* other code, of either sign, it raises DeviceError with a message that
\* holds the action text and the code as passed, and then the text
\* ERRORCODES has for |code| if |code| is a key, or "(not specified
\* further)" if it is not.
C28_CheckOutcome ==
    Checked =>
        IF chk.error = 0
        THEN chk.res = "ok" /\ chk.message = <<>>
        ELSE /\ chk.res = "DeviceError"
             /\ \E i \in Parts("action") : chk.message[i].text = chk.action
             /\ \E i \in Parts("code") :
                   /\ chk.message[i].number.minus = (chk.error < 0)
                   /\ chk.message[i].number.digits = Magnitude(chk.error)
             /\ IF KnownCode(chk.error)
                THEN \E i \in Parts("reason") :
                        chk.message[i].text = ErrorText[Magnitude(chk.error)]
                ELSE /\ Parts("reason") = {}
                     /\ \E i \in Parts("literal") :
                           chk.message[i].text = " (not specified further)"

\* a negative code whose magnitude is a key was checked, and the message
\* has the key's text and the negative code
C28_Witness ==
    /\ Checked
    /\ chk.error = -8006
    /\ chk.action = "Closing connection to OB1"
    /\ chk.res = "DeviceError"
    /\ Len(chk.message) = 5
    /\ chk.message[3].number = [minus |-> TRUE, digits |-> 8006]
    /\ chk.message[5].text = "No Instrument with selected ID"


\* ===================================================================
\* Properties of the scoped use of a session
\* ===================================================================
\* the with statement is over: __enter__ raised, or __exit__ has run
ScopeLeft ==
    \/ scope.pc = "raised"
    \/ /\ scope.pc = "exit"
       /\ IF scope.who = "pelve" THEN last.op = "close"
          ELSE mhist.op = "close" /\ mpc = "idle"

\* the driver initialised a handle for the session of the with statement
ScopeInitialised ==
    IF scope.who = "pelve" THEN Instr_ID \in {"valid", "destroyed"}
    ELSE muxInstr \in {"valid", "destroyed"}

\* the session's close made its destroy call
ScopeDestroyCalled ==
    IF scope.who = "pelve"
    THEN /\ last.op = "close"
         /\ \E i \in 1..Len(last.calls) : last.calls[i].fn = "OB1_Destructor"
    ELSE /\ mhist.op = "close"
         /\ \E i \in 1..Len(mhist.log) : mhist.log[i].ev = "MUX_DRI_Destructor"

\* C27: once a with statement over a pressure or a valve session is over,
\* a handle the driver initialised in it has been passed to a destroy
\* call, whether the block raised or the entry failed after the
\* initialization (a failing homing step of the valve session).
C27_HandleReleased == ScopeLeft /\ ScopeInitialised => ScopeDestroyCalled


\* ===================================================================
\* Properties of the sweep routine on an empty list
\* ===================================================================
\* C34: pressureSweep called with an empty list of setpoints returns, with
\* an empty result and without an exception; it runs no acquisition and
\* calls setPressure(channel, 0) exactly once if endAtZero and makes no
\* call otherwise.  (A zero-pressure set that itself fails is left out.)
C34_EmptySweepReturns ==
    /\ spc = "done"
    /\ swp.pressures = <<>>
    /\ \A k \in 1..Len(shist.log) : shist.log[k].res = "ok"
    => /\ shist.res = "ok"
       /\ swp.result = <<>>
       /\ apc = "idle"
       /\ shist.log = IF swp.endAtZero THEN <<SetEntry(0, "ok")>> ELSE <<>>


\* ===================================================================
\* Properties of the injection routine: how it ends
\* ===================================================================
\* set_valve(inject_valve_channel) was called and has returned
InjectValveCalled ==
    /\ Len(ihist.log) >= InjectPrefix
    /\ ihist.log[InjectPrefix].op = "set_valve"
    /\ ihist.log[InjectPrefix].res = "ok"

\* C33: once set_valve(inject_valve_channel) has returned to injectVolume,
\* the routine does not end, by returning or by an exception of a flow
\* read, of the sleep or of a valve move, without having called one of
\* set_valve(stop_valve_channel), setPressure(pressure_channel, 0) and
\* remoteSetTarget(flowrate_sensor_channel, 0); also when none of pressure,
\* flow_rate and stop_valve_channel was given.
C33_StoppedBeforeEnd ==
    ipc = "done" /\ InjectValveCalled => StopEntries # {}


\* ===================================================================
\* Properties of the PID sub-state
\* ===================================================================
\* C31: in every state of the pressure session, a PID Running flag that is
\* set belongs to a channel whose PID Configuration is present, and a
\* present PID Configuration on any channel implies Remote-Mode.  Channel
\* ch keeps both in the list entry SlotIndex(ch); the entries no channel
\* uses are covered as well.
C31_PIDNesting ==
    \A i \in Slots :
        /\ (runningPIDs[i] => confPIDs[i].isDict)
        /\ (confPIDs[i].isDict => insideRemote)

\* in Remote-Mode one channel has a running PID, another a paused one, and
\* the latest call was a stopRemote the driver refused
C31_Witness ==
    /\ insideRemote
    /\ last.op = "stopRemote"
    /\ last.res = "DeviceError"
    /\ \E i, j \in Slots :
          /\ i # j
          /\ confPIDs[i].isDict /\ runningPIDs[i]
          /\ confPIDs[j].isDict /\ ~runningPIDs[j]


\* the operations C32 names
StatefulOps ==
    {"startRemote", "stopRemote", "remoteAddPID", "remotePausePID",
     "remoteStartPID", "remoteResetPID", "remoteChangePID", "performCallibration"}

\* C32: on an open session, when one of startRemote, stopRemote,
\* remoteAddPID, remotePausePID, remoteStartPID, remoteResetPID,
\* remoteChangePID and performCallibration fails with DeviceError because
\* its driver call returned a non-zero status, insideRemote, confPIDs,
\* runningPIDs and the calibration table are what they were before the
\* call.
C32_FailedCallKeepsState ==
    /\ OnOpenSession
    /\ last.op \in StatefulOps
    /\ last.res = "DeviceError"
    /\ \E i \in 1..Len(last.calls) : last.calls[i].status # 0
    => /\ insideRemote = last.pre.insideRemote
       /\ confPIDs = last.pre.confPIDs
       /\ runningPIDs = last.pre.runningPIDs
       /\ calib = last.pre.calib

====
